---- MODULE Spec2Model ----
(***************************************************************************)
(* The ArtGallery workflow controller of clipsketch-ai: the refine stage   *)
(* (per-panel generation and batch jobs), the provider's batch interface   *)
(* and the calls that are in flight between the two.                       *)
(*                                                                         *)
(* React state is modelled as variables.  A handler runs against the       *)
(* values of the render that created it; the part of an async handler up   *)
(* to its first await is one action, and each continuation after an await  *)
(* is another action that works on the values captured at the call and on  *)
(* functional updaters (setX(prev => ...)), which see the latest state.    *)
(***************************************************************************)
EXTENDS Integers, Sequences, FiniteSets, Bags, TLC

(***************************************************************************)
(* Bounds of the model.                                                    *)
(***************************************************************************)
MaxPanels == 3        \* largest panel count typed in, per-panel path
MaxBatchPanels == 2   \* largest panel count typed in, batch path
MaxFrames == 1        \* frames a capture returns at most
MaxJobs == 1          \* batch submissions in a behaviour whose jobs finish
MaxSubmits == 2       \* batch submissions in a behaviour whose jobs keep running
MaxPolls == 1         \* checkBatchStatus calls in flight at once
MaxGens == 3          \* refinePanel calls in flight at once
MaxBase == 1          \* base-image generations in one behaviour
MaxAnalyze == 1       \* step analyses in one behaviour
MaxCaptions == 1      \* caption generations in one behaviour
MaxCovers == 1        \* cover generations in one behaviour
MaxReruns == 2        \* analyses and base generations in one behaviour, cascade
MaxCascadePanels == 1 \* largest panel count typed in, cascade
MaxReorderFrames == 2 \* frames a capture returns at most, frame editing
MaxRegen == 2         \* panels of the grid whose regenerate button is used
MaxClock == 2         \* latest value of Date.now()
MaxCalls == 3         \* StorageService calls in one behaviour
MaxAppCalls == 5      \* StorageService calls of App and gallery, frames
MaxWrites == 2        \* StorageService calls in flight at a time
MaxTime == 5          \* latest value of Date.now(), autosave
MaxSaves == 2         \* storage calls made before the last autosave write
MaxDescribed == 2      \* frames of an analysis, step mapping
MaxGroups == 2        \* step groups in a response
MaxIndices == 2       \* indices in a step group

(***************************************************************************)
(* Program constants.                                                      *)
(***************************************************************************)
DefaultRecoverPanels == 10   \* `panelCount || 10` of handleRecoverBatch
NoJob == 0                   \* batchJobId === null
ForeignJob == 99             \* a job id typed by the user the provider does not know
NoArt == 0                   \* baseArt / generatedArt === null

NoCaption == 0               \* selectedCaption === null
NoCover == 0                 \* coverImage === null

NullImg == <<>>              \* imageUrl === null
NoError == "none"            \* error === null

MsgSubmitFailed == "batch submit failed"
MsgBatchFailed == "batch failed or expired"
MsgCheckFailed == "status check failed"
MsgSingleFailed == "single panel failed"
MsgProvider == "provider error"
MsgNoFrames == "no frames"
MsgNoCaption == "no caption selected"
MsgCapture == "frame capture failed"
MsgMissing == "base art or avatar missing"

Statuses == {"pending", "generating", "completed", "error"}

\* The keys of the object store: '' and two project ids.
Keys == {"", "a", "b"}
\* store.get(key) found nothing: request.result is undefined.
NoRecord == <<>>
\* The project the App has open.
ProjectId == "a"
NoAvatar == "none"           \* avatarImage === null
DefaultRatio == "9:16"
\* No StorageService call has met a failure.
NoFailure == [op |-> "none", at |-> "none", outcome |-> "none",
              caught |-> TRUE]
\* saveTimeoutRef.current is null and the autosave effect has not run.
NoTimer == [live |-> FALSE, due |-> 0, state |-> <<>>]
\* The autosave delay, 1000 ms, in ticks of the clock.
QuietPeriod == 2
\* No StorageService call has been made yet.
NoCall == [seq |-> 0, op |-> "none", id |-> "", arg |-> <<>>, at |-> 0]

VARIABLES
    isRestoring, activeStrategy, sourceFrames, isLoadingFrames,
    stepDescriptions, isAnalyzingSteps,
    baseArt, generatedArt, isGeneratingImage,
    panelCount, subPanels, batchJobId, batchStatus,
    workflowStep, error, useBatch, provider,
    analyzeCalls,    \* analyzeSteps calls made so far
    baseCalls,       \* generateBaseImage calls made so far
    submits,         \* refinePanelsBatch calls in flight
    submitSeq,       \* number of batch submissions started
    polls,           \* checkBatchStatus calls in flight
    gens,            \* refinePanel calls in flight (a bag)
    timers,          \* setTimeout callbacks of handleRecoverBatch
    jobs,            \* the provider's batch jobs, by job id
    captionOptions, selectedCaption, coverImage,
    isGeneratingCaptions, isGeneratingCover,
    captionCalls,    \* generateCaptions calls made so far
    coverCalls,      \* generateCover calls made so far
    db,              \* the 'projects' object store of IndexedDB, by key
    clock,           \* Date.now()
    got,             \* what the last getProject resolved with
    call,            \* the last StorageService call: what it was given
    showGallery,     \* App: the gallery overlay is mounted
    sourceType,      \* App: 'local' or 'images'
    loadedSourceFrames, \* App: the frames of an image project
    tags,            \* App: the tags, by id
    writes,          \* StorageService calls waiting for their transaction
    saveTimer,       \* the autosave effect's timeout and the state it captured
    captured,        \* initGallery has been started since the gallery was mounted
    avatarImage,     \* the character image, mirrored in localStorage
    watermarkText,   \* the watermark, mirrored in localStorage
    aspectRatio,
    integrating,     \* an integrateCharacter call is in flight
    viewStep,        \* the step expanded in the Sidebar and shown on the right
    failure,         \* the last StorageService call that met a failure
    steps,           \* the step groups of the last analyzeSteps response
    refreshing       \* App: project ids whose video link is being fetched again

vars == <<isRestoring, activeStrategy, sourceFrames, isLoadingFrames,
          stepDescriptions, isAnalyzingSteps,
          baseArt, generatedArt, isGeneratingImage,
          panelCount, subPanels, batchJobId, batchStatus,
          workflowStep, error, useBatch, provider,
          analyzeCalls, baseCalls, submits, submitSeq, polls, gens, timers, jobs,
          captionOptions, selectedCaption, coverImage,
          isGeneratingCaptions, isGeneratingCover, captionCalls,
          coverCalls, db, clock, got, call, showGallery, sourceType,
          loadedSourceFrames, tags, writes, saveTimer,
          captured, avatarImage, watermarkText, aspectRatio, integrating,
          viewStep, failure, steps, refreshing>>

(***************************************************************************)
(* Values.                                                                 *)
(***************************************************************************)
\* A SubPanel {index, imageUrl, status}.
Panel(i, img, st) == [index |-> i, imageUrl |-> img, status |-> st]

\* The image the provider draws for prompt index idx from storyboard art;
\* job is the batch job that produced it, NoJob for a single call.
Img(idx, art, job) == <<idx, art, job>>

\* The indices of a panel list, in list order.
Indices(panels) == [k \in 1..Len(panels) |-> panels[k].index]

Range(s) == {s[k] : k \in 1..Len(s)}

(***************************************************************************)
(* StorageService: the records it builds, as functions of its arguments.   *)
(***************************************************************************)
\* Object spread { ...a, ...b }.
Merge(a, b) ==
    [f \in DOMAIN a \cup DOMAIN b |-> IF f \in DOMAIN b THEN b[f] ELSE a[f]]

\* store.put(rec): the record is stored under rec.id.
Put(d, rec) == [d EXCEPT ![rec.id] = rec]

\* saveProject that stores the state as handed in.
SavedRecordUnstamped(state, now) == state

\* The record saveProject puts: { ...state, lastUpdated: Date.now() }.
SavedRecord(state, now) == Merge(state, [lastUpdated |-> now])

\* updateProject that replaces the record by the partial.
UpdatedRecordReplaces(existing, id, updates, now) ==
    Merge(updates, [id |-> id, lastUpdated |-> now])

\* updateProject, a record exists:
\* { ...existing, ...updates, id, lastUpdated: Date.now() }.
UpdatedRecord(existing, id, updates, now) ==
    Merge(Merge(existing, updates), [id |-> id, lastUpdated |-> now])

\* The literal of updateProject's fallback, before ...updates.
FallbackProject(id, now) ==
    [id |-> id, name |-> "New Project", videoUrl |-> "", lastUpdated |-> now,
     sourceFrames |-> <<>>, stepDescriptions |-> <<>>, subPanels |-> <<>>,
     captionOptions |-> <<>>, sourceType |-> "local", originalSource |-> "",
     aspectRatio |-> "9:16"]

\* updateProject, no record exists: { id, ...defaults, ...updates }.
CreatedRecord(id, updates, now) == Merge(FallbackProject(id, now), updates)

\* The object store after updateProject(id, updates) at time now.
UpdatedStore(d, id, updates, now) ==
    IF id = "" THEN d
    ELSE IF d[id] # NoRecord
         THEN Put(d, UpdatedRecord(d[id], id, updates, now))
         ELSE Put(d, CreatedRecord(id, updates, now))

\* What getProject(id) resolves with (null is NoRecord).
Fetched(d, id) == IF id = "" THEN NoRecord ELSE d[id]

\* The project App.createProject builds.
NewProject(id, type, frames, now) ==
    [id |-> id, name |-> "name", videoUrl |-> "url", sourceType |-> type,
     originalSource |-> "source", lastUpdated |-> now, tags |-> frames,
     activeStrategyId |-> FALSE, sourceFrames |-> frames,
     stepDescriptions |-> <<>>, baseArt |-> NoArt, generatedArt |-> NoArt,
     panelCount |-> Len(frames), subPanels |-> <<>>, captionOptions |-> <<>>,
     selectedCaption |-> NoCaption, coverImage |-> NoCover,
     workflowStep |-> "input", batchJobId |-> NoJob, batchStatus |-> "idle",
     avatarImage |-> NoAvatar, watermarkText |-> "", viewStep |-> 1,
     aspectRatio |-> "9:16"]

\* prev.map(p => cond(p.index) ? {...p, status: st} : p)
MarkTargets(prev, targets, st) ==
    [k \in 1..Len(prev) |->
        IF prev[k].index \in targets
        THEN [prev[k] EXCEPT !.status = st]
        ELSE prev[k]]

\* prev.map(p => p.status === from ? {...p, status: to} : p)
MarkStatus(prev, from, to) ==
    [k \in 1..Len(prev) |->
        IF prev[k].status \in from
        THEN [prev[k] EXCEPT !.status = to]
        ELSE prev[k]]

\* Panels numbered from 1.
NewPanelsFromOne(n, st) == [k \in 1..n |-> Panel(k, NullImg, st)]

\* Array.from({length: n}, (_, i) => ({index: i, imageUrl: null, status}))
NewPanels(n, st) == [k \in 1..n |-> Panel(k - 1, NullImg, st)]

(***************************************************************************)
(* What is rendered: the handlers below are reachable only through the     *)
(* controls of the Sidebar and of Step5Refine.                             *)
(***************************************************************************)
SidebarShown == ~isRestoring /\ activeStrategy /\ ~isLoadingFrames

Step2Shown == SidebarShown /\ Len(stepDescriptions) > 0

Step4Shown == SidebarShown /\ generatedArt # NoArt

AnyGenerating == \E k \in 1..Len(subPanels) : subPanels[k].status = "generating"

StartRefineEnabled == Step4Shown /\ ~isGeneratingImage /\ ~AnyGenerating

\* Step5Refine shows the panel grid unless a job is attached and pending.
GridShown == Step4Shown /\ ~(batchJobId # NoJob /\ batchStatus = "pending")

(***************************************************************************)
(* Initial state: the useState initialisers of ArtGallery.  useBatch and   *)
(* provider are read from localStorage.                                    *)
(***************************************************************************)
Init ==
    /\ isRestoring = TRUE
    /\ activeStrategy = FALSE
    /\ sourceFrames = <<>>
    /\ isLoadingFrames = FALSE
    /\ stepDescriptions = <<>>
    /\ isAnalyzingSteps = FALSE
    /\ baseArt = NoArt
    /\ generatedArt = NoArt
    /\ isGeneratingImage = FALSE
    /\ panelCount = 0
    /\ subPanels = <<>>
    /\ batchJobId = NoJob
    /\ batchStatus = "idle"
    /\ workflowStep = "input"
    /\ error = NoError
    /\ useBatch \in BOOLEAN
    /\ provider \in {"google", "openai"}
    /\ analyzeCalls = 0
    /\ baseCalls = 0
    /\ submits = {}
    /\ submitSeq = 0
    /\ polls = EmptyBag
    /\ gens = EmptyBag
    /\ timers = EmptyBag
    /\ jobs = <<>>
    /\ captionOptions = <<>>
    /\ selectedCaption = NoCaption
    /\ coverImage = NoCover
    /\ isGeneratingCaptions = FALSE
    /\ isGeneratingCover = FALSE
    /\ captionCalls = 0
    /\ coverCalls = 0
    /\ db = [k \in Keys |-> NoRecord]
    /\ clock = 0
    /\ got = NoRecord
    /\ call = NoCall
    /\ showGallery \in BOOLEAN
    /\ sourceType = "local"
    /\ loadedSourceFrames = <<>>
    /\ tags = <<>>
    /\ writes = <<>>
    /\ saveTimer = NoTimer
    /\ captured = FALSE
    /\ avatarImage = NoAvatar
    /\ watermarkText = ""
    /\ aspectRatio = DefaultRatio
    /\ integrating = FALSE
    /\ viewStep = 1
    /\ failure = NoFailure
    /\ steps = <<>>
    /\ refreshing = {}

gallery == <<isRestoring, activeStrategy, sourceFrames, isLoadingFrames,
             stepDescriptions, isAnalyzingSteps, analyzeCalls>>
art == <<baseArt, generatedArt, isGeneratingImage, baseCalls>>
batch == <<batchJobId, batchStatus>>
flight == <<submits, submitSeq, polls, gens, timers>>
captions == <<captionOptions, selectedCaption, coverImage,
              isGeneratingCaptions, isGeneratingCover, captionCalls,
              coverCalls>>
store == <<db, clock, got, call>>
app == <<showGallery, sourceType, loadedSourceFrames, tags, refreshing>>
session == <<writes, saveTimer, captured, failure, steps>>
character == <<avatarImage, watermarkText, aspectRatio, integrating>>

(***************************************************************************)
(* Opening the gallery: restore, frame capture, strategy, analysis.        *)
(***************************************************************************)
\* restoreState for a project id with no saved record.
RestoreDone ==
    /\ isRestoring
    /\ Fetched(db, ProjectId) = NoRecord
    /\ isRestoring' = FALSE
    /\ UNCHANGED <<analyzeCalls, activeStrategy, sourceFrames, isLoadingFrames,
                   stepDescriptions, isAnalyzingSteps, art, panelCount,
                   subPanels, batch, workflowStep, error, useBatch,
                   provider, flight, jobs,
                   captions, store, app,
                   session,
                   character, viewStep>>

\* PlatformSelector: onSelect={setActiveStrategy}
SelectStrategy ==
    /\ ~isRestoring /\ ~activeStrategy
    /\ activeStrategy' = TRUE
    /\ UNCHANGED <<analyzeCalls, isRestoring, sourceFrames, isLoadingFrames,
                   stepDescriptions, isAnalyzingSteps, art, panelCount,
                   subPanels, batch, workflowStep, error, useBatch,
                   provider, flight, jobs,
                   captions, store, app,
                   session,
                   character, viewStep>>

\* The capture effect up to its await.
\* The guard of the capture effect: not restoring, no frames, no capture
\* running, and a video to capture from.
MayCapture ==
    /\ ~isRestoring /\ Len(sourceFrames) = 0 /\ ~isLoadingFrames
    /\ sourceType # "images"    \* an image project has no videoUrl

InitGalleryStart ==
    /\ MayCapture
    /\ isLoadingFrames' = TRUE
    /\ captured' = TRUE
    /\ UNCHANGED <<analyzeCalls, isRestoring, activeStrategy, sourceFrames,
                   stepDescriptions, isAnalyzingSteps, art, panelCount,
                   subPanels, batch, workflowStep, error, useBatch,
                   provider, flight, jobs,
                   captions, store, app, writes, saveTimer,
                   character, viewStep, failure, steps>>

\* captureFramesAsBase64 rejected.
InitGalleryFail ==
    /\ isLoadingFrames
    /\ error' = MsgCapture
    /\ isLoadingFrames' = FALSE
    /\ UNCHANGED <<analyzeCalls, isRestoring, activeStrategy, sourceFrames,
                   stepDescriptions, isAnalyzingSteps, art, panelCount,
                   subPanels, batch, workflowStep, useBatch, provider,
                   flight, jobs, captions, store, app, session,
                   character, viewStep>>

\* captureFramesAsBase64 resolved with n frames.
InitGalleryDone(n) ==
    /\ isLoadingFrames
    /\ sourceFrames' = [k \in 1..n |-> k]
    /\ panelCount' = n
    /\ isLoadingFrames' = FALSE
    /\ UNCHANGED <<analyzeCalls, isRestoring, activeStrategy, stepDescriptions,
                   isAnalyzingSteps, art, subPanels, batch, workflowStep,
                   error, useBatch, provider, flight, jobs,
                   captions, store, app,
                   session,
                   character, viewStep>>

\* handleAnalyzeSteps up to its await; cap bounds the calls of a behaviour.
AnalyzeSteps(cap) ==
    /\ SidebarShown /\ ~isAnalyzingSteps /\ ~isGeneratingImage
    /\ Len(sourceFrames) > 0 /\ activeStrategy
    /\ analyzeCalls < cap
    /\ analyzeCalls' = analyzeCalls + 1
    /\ stepDescriptions' = <<>>
    /\ baseArt' = NoArt
    /\ generatedArt' = NoArt
    /\ subPanels' = <<>>
    /\ captionOptions' = <<>>
    /\ selectedCaption' = NoCaption
    /\ coverImage' = NoCover
    /\ workflowStep' = "input"
    /\ isAnalyzingSteps' = TRUE
    /\ error' = NoError
    /\ viewStep' = 1
    /\ UNCHANGED <<isRestoring, activeStrategy, sourceFrames,
                   isLoadingFrames, isGeneratingImage, baseCalls,
                   panelCount, batch, useBatch, provider, flight, jobs,
                   isGeneratingCaptions, isGeneratingCover, captionCalls,
                   coverCalls, store, app,
                   session,
                   character>>

\* GeminiService.analyzeSteps resolved: one description per frame.
AnalyzeDone ==
    /\ isAnalyzingSteps
    /\ stepDescriptions' = [k \in 1..Len(sourceFrames) |-> "d"]
    /\ isAnalyzingSteps' = FALSE
    /\ viewStep' = 1
    /\ UNCHANGED <<analyzeCalls, isRestoring, activeStrategy, sourceFrames,
                   isLoadingFrames, art, panelCount, subPanels, batch,
                   workflowStep, error, useBatch, provider, flight, jobs,
                   captions, store, app,
                   session,
                   character>>

\* GeminiService.analyzeSteps rejected.
AnalyzeFail ==
    /\ isAnalyzingSteps
    /\ error' = MsgProvider
    /\ isAnalyzingSteps' = FALSE
    /\ UNCHANGED <<analyzeCalls, isRestoring, activeStrategy, sourceFrames,
                   isLoadingFrames, stepDescriptions, art, panelCount,
                   subPanels, batch, workflowStep, useBatch, provider,
                   flight, jobs,
                   captions, store, app,
                   session,
                   character, viewStep>>

(***************************************************************************)
(* Base storyboard.                                                        *)
(***************************************************************************)
\* handleGenerateBase: the inputs it refuses.
BaseRejected == Len(sourceFrames) = 0 \/ ~activeStrategy

\* handleGenerateBase up to its await; cap bounds the calls of a behaviour.
GenerateBase(cap) ==
    /\ Step2Shown /\ ~isGeneratingImage
    /\ baseCalls < cap
    /\ IF BaseRejected
       THEN /\ error' = MsgNoFrames
            /\ UNCHANGED <<art, subPanels, captionOptions, selectedCaption,
                           coverImage, viewStep>>
       ELSE /\ subPanels' = <<>>
            /\ captionOptions' = <<>>
            /\ selectedCaption' = NoCaption
            /\ coverImage' = NoCover
            /\ baseArt' = NoArt
            /\ generatedArt' = NoArt
            /\ isGeneratingImage' = TRUE
            /\ baseCalls' = baseCalls + 1
            /\ error' = NoError
            /\ viewStep' = 2
    /\ UNCHANGED <<gallery, panelCount, batch, workflowStep, useBatch,
                   provider, flight, jobs, isGeneratingCaptions,
                   isGeneratingCover, captionCalls, coverCalls, store, app,
                   session,
                   character>>

\* GeminiService.generateBaseImage resolved with a new image.
GenerateBaseDone ==
    /\ isGeneratingImage /\ ~integrating
    /\ baseArt' = baseCalls
    /\ generatedArt' = baseCalls
    /\ workflowStep' = "base_generated"
    /\ isGeneratingImage' = FALSE
    /\ viewStep' = 3
    /\ UNCHANGED <<gallery, baseCalls, panelCount, subPanels, batch, error,
                   useBatch, provider, flight, jobs,
                   captions, store, app,
                   session,
                   character>>

\* GeminiService.generateBaseImage rejected.
GenerateBaseFail ==
    /\ isGeneratingImage /\ ~integrating
    /\ error' = MsgProvider
    /\ isGeneratingImage' = FALSE
    /\ UNCHANGED <<gallery, baseArt, generatedArt, baseCalls, panelCount,
                   subPanels, batch, workflowStep, useBatch, provider,
                   flight, jobs,
                   captions, store, app,
                   session,
                   character, viewStep>>

(***************************************************************************)
(* Character integration.                                                  *)
(***************************************************************************)
\* Sidebar step 3 can be opened once there is a storyboard.
Step3Shown == SidebarShown /\ generatedArt # NoArt

\* The image integrateCharacter draws from a base image.
CharacterArt(base) == 0 - base

\* handleAvatarUpload, with the file read.
AvatarUpload ==
    /\ Step3Shown
    /\ avatarImage = NoAvatar
    /\ avatarImage' = "avatar"
    /\ workflowStep' = IF workflowStep = "base_generated"
                       THEN "avatar_mode" ELSE workflowStep
    /\ UNCHANGED <<gallery, art, panelCount, subPanels, batch, error,
                   useBatch, provider, flight, jobs, captions, store, app,
                   session, watermarkText, aspectRatio, integrating,
                   viewStep>>

\* onRemoveAvatar
RemoveAvatar ==
    /\ Step3Shown
    /\ avatarImage # NoAvatar
    /\ avatarImage' = NoAvatar
    /\ UNCHANGED <<gallery, art, panelCount, subPanels, batch, workflowStep,
                   error, useBatch, provider, flight, jobs, captions, store,
                   app, session, watermarkText, aspectRatio, integrating,
                   viewStep>>

\* The watermark input of Sidebar step 3.
SetWatermarkText(text) ==
    /\ Step3Shown
    /\ avatarImage # NoAvatar
    /\ text # watermarkText
    /\ watermarkText' = text
    /\ UNCHANGED <<gallery, art, panelCount, subPanels, batch, workflowStep,
                   error, useBatch, provider, flight, jobs, captions, store,
                   app, session, avatarImage, aspectRatio, integrating,
                   viewStep>>

\* The aspect-ratio choice of the Sidebar.
SetAspectRatio(ratio) ==
    /\ SidebarShown
    /\ ratio # aspectRatio
    /\ aspectRatio' = ratio
    /\ UNCHANGED <<gallery, art, panelCount, subPanels, batch, workflowStep,
                   error, useBatch, provider, flight, jobs, captions, store,
                   app, session, avatarImage, watermarkText, integrating,
                   viewStep>>

\* onStepChange(step): a step of the Sidebar is opened.
SetViewStep(step) ==
    /\ SidebarShown
    /\ step = 2 => Len(stepDescriptions) > 0
    /\ step > 2 => generatedArt # NoArt
    /\ step # viewStep
    /\ viewStep' = step
    /\ UNCHANGED <<gallery, art, panelCount, subPanels, batch, workflowStep,
                   error, useBatch, provider, flight, jobs, captions, store,
                   app, session, character>>

\* handleIntegrateCharacter: the inputs it refuses.
IntegrateRejected == baseArt = NoArt \/ avatarImage = NoAvatar

\* handleIntegrateCharacter up to its await.
IntegrateCharacter ==
    /\ Step3Shown /\ ~isGeneratingImage
    /\ avatarImage # NoAvatar    \* the button is disabled without an avatar
    /\ IF IntegrateRejected
       THEN /\ error' = MsgMissing
            /\ UNCHANGED <<subPanels, isGeneratingImage, integrating,
                           viewStep>>
       ELSE /\ subPanels' = <<>>
            /\ viewStep' = 3
            /\ isGeneratingImage' = TRUE
            /\ integrating' = TRUE
            /\ error' = NoError
    /\ UNCHANGED <<gallery, baseArt, generatedArt, baseCalls, panelCount,
                   batch, workflowStep, useBatch, provider, flight, jobs,
                   captions, store, app, session, avatarImage, watermarkText,
                   aspectRatio>>

\* GeminiService.integrateCharacter resolved with an image.
IntegrateDone ==
    /\ isGeneratingImage /\ integrating
    /\ generatedArt' = CharacterArt(baseArt)
    /\ workflowStep' = "final_generated"
    /\ viewStep' = 4
    /\ isGeneratingImage' = FALSE
    /\ integrating' = FALSE
    /\ UNCHANGED <<gallery, baseArt, baseCalls, panelCount, subPanels, batch,
                   error, useBatch, provider, flight, jobs, captions, store,
                   app, session, avatarImage, watermarkText, aspectRatio>>

\* A failed integrateCharacter that drops the storyboard.
IntegrateFailedArtDropped(current) == NoArt

\* generatedArt after a failed integrateCharacter: nothing sets it.
IntegrateFailedArt(current) == current

\* GeminiService.integrateCharacter rejected.
IntegrateFail ==
    /\ isGeneratingImage /\ integrating
    /\ error' = MsgProvider
    /\ generatedArt' = IntegrateFailedArt(generatedArt)
    /\ isGeneratingImage' = FALSE
    /\ integrating' = FALSE
    /\ UNCHANGED <<gallery, baseArt, baseCalls, panelCount, subPanels, batch,
                   workflowStep, useBatch, provider, flight, jobs, captions,
                   store, app, session, avatarImage, watermarkText,
                   aspectRatio, viewStep>>

\* handleSkipCharacter
SkipCharacter ==
    /\ Step3Shown /\ ~isGeneratingImage
    /\ baseArt # NoArt
    /\ generatedArt' = baseArt
    /\ workflowStep' = "final_generated"
    /\ viewStep' = 4
    /\ UNCHANGED <<gallery, baseArt, isGeneratingImage, baseCalls,
                   panelCount, subPanels, batch, error, useBatch, provider,
                   flight, jobs, captions, store, app, session, character>>

\* The panel-count input of Sidebar step 4.
SetPanelCount(n) ==
    /\ Step4Shown
    /\ n # panelCount
    /\ panelCount' = n
    /\ UNCHANGED <<gallery, art, subPanels, batch, workflowStep, error,
                   useBatch, provider, flight, jobs,
                   captions, store, app,
                   session,
                   character, viewStep>>

(***************************************************************************)
(* The provider's batch interface.                                         *)
(*                                                                         *)
(* A job is [sid, reqs, art, state, out]: reqs is the list of panel        *)
(* indices carried by the requests (request k of the upload has custom_id  *)
(* req-k, k from 0, and asks for panel reqs[k+1]); out is the result file, *)
(* one line [custom, ok] per answered request, in the order the backend    *)
(* wrote them.                                                             *)
(***************************************************************************)
KnownJobs == 1..Len(jobs)

Reverse(s) == [k \in 1..Len(s) |-> s[Len(s) + 1 - k]]

RECURSIVE AscendingSeq(_)
AscendingSeq(S) ==
    IF S = {} THEN <<>>
    ELSE LET m == CHOOSE x \in S : \A y \in S : x <= y
         IN  <<m>> \o AscendingSeq(S \ {m})

\* The result files a backend may write for n requests: the Google batch
\* backend answers any subset of the requests, each with or without an
\* image, in submission order or in reverse; the OpenAI shim is a
\* Promise.all, which answers every request in submission order.
ResultFiles(prov, n) ==
    LET All == 0..(n - 1)
        Present == IF prov = "openai" THEN {All} ELSE SUBSET All
        Lines(P, okSet) ==
            LET asc == AscendingSeq(P)
            IN  [k \in 1..Len(asc) |-> [custom |-> asc[k], ok |-> asc[k] \in okSet]]
    IN  UNION { { Lines(P, okSet) : okSet \in SUBSET P } : P \in Present }
        \cup (IF prov = "openai" THEN {}
              ELSE UNION { { Reverse(Lines(P, okSet)) : okSet \in SUBSET P }
                           : P \in Present })

\* parsedItems.sort((a, b) => idxA - idxB): a stable sort on custom_id.
InsertByCustomId(s, x) ==
    LET k == Cardinality({i \in 1..Len(s) : s[i].custom <= x.custom})
    IN  SubSeq(s, 1, k) \o <<x>> \o SubSeq(s, k + 1, Len(s))

RECURSIVE SortByCustomId(_)
SortByCustomId(items) ==
    IF items = <<>> THEN <<>>
    ELSE InsertByCustomId(SortByCustomId(SubSeq(items, 1, Len(items) - 1)),
                          items[Len(items)])

\* One LLMResponse of a batch: the images of result line ln of job j.
ItemResponse(j, ln) ==
    [images |-> IF ln.ok
                THEN <<Img(jobs[j].reqs[ln.custom + 1], jobs[j].art, j)>>
                ELSE <<>>]

\* GoogleProvider.getBatchStatus; net = FALSE is a failed request
\* (batches.get or the download of the result file throws).
GoogleGetBatchStatus(jobId, net) ==
    IF ~net \/ jobId \notin KnownJobs
    THEN [status |-> "failed", hasResults |-> FALSE, results |-> <<>>]
    ELSE IF jobs[jobId].state = "succeeded"
    THEN LET sorted == SortByCustomId(jobs[jobId].out)
         IN  [status |-> "completed", hasResults |-> TRUE,
              results |-> [k \in 1..Len(sorted) |-> ItemResponse(jobId, sorted[k])]]
    ELSE IF jobs[jobId].state = "failed"
    THEN [status |-> "failed", hasResults |-> FALSE, results |-> <<>>]
    ELSE [status |-> "in_progress", hasResults |-> FALSE, results |-> <<>>]

\* OpenAIProvider.getBatchStatus, called once the job's promise has settled.
OpenAIGetBatchStatus(jobId) ==
    IF jobId \notin KnownJobs
    THEN [status |-> "failed", hasResults |-> FALSE, results |-> <<>>]
    ELSE IF jobs[jobId].state = "succeeded"
    THEN [status |-> "completed", hasResults |-> TRUE,
          results |-> [k \in 1..Len(jobs[jobId].out) |->
                          ItemResponse(jobId, jobs[jobId].out[k])]]
    ELSE [status |-> "failed", hasResults |-> FALSE, results |-> <<>>]

\* The index checkBatchStatus gives to result i (i from 0) of the list.
ResultIndex(i) == i

\* GeminiService.checkBatchStatus applied to the provider's answer.
CheckBatchStatus(sr) ==
    IF sr.status \in {"completed", "validating", "in_progress"}
    THEN IF sr.hasResults
         THEN [status |-> "completed",
               results |-> [k \in 1..Len(sr.results) |->
                   [index |-> ResultIndex(k - 1),
                    image |-> IF Len(sr.results[k].images) > 0
                              THEN sr.results[k].images[1]
                              ELSE NullImg]]]
         ELSE IF sr.status = "completed"
         THEN [status |-> "completed", results |-> <<>>]
         ELSE [status |-> "pending", results |-> <<>>]
    ELSE IF sr.status \in {"failed", "expired", "cancelled"}
    THEN [status |-> "failed", results |-> <<>>]
    ELSE [status |-> "pending", results |-> <<>>]

\* The rejected call: getProvider throws before any request is made.
Threw == [status |-> "threw", results |-> <<>>]

\* A checkBatchStatus call for job j is waiting for its answer.
Awaited(j) == \E p \in BagToSet(polls) : p.jobId = j /\ p.resp = "none"

\* The provider finishes job j and writes the result file out.  When a job
\* ends shows only in the answer to the next status request, so the step is
\* taken when such a request is waiting.
JobSucceed(j, out) ==
    /\ jobs[j].state = "running"
    /\ Awaited(j)
    /\ jobs' = [jobs EXCEPT ![j].state = "succeeded", ![j].out = out]
    /\ UNCHANGED <<gallery, art, panelCount, subPanels, batch, workflowStep,
                   error, useBatch, provider, flight,
                   captions, store, app,
                   session,
                   character, viewStep>>

\* The provider gives up job j (failed, cancelled, expired; for the OpenAI
\* shim one rejected request rejects the whole Promise.all).
JobFail(j) ==
    /\ jobs[j].state = "running"
    /\ Awaited(j)
    /\ jobs' = [jobs EXCEPT ![j].state = "failed"]
    /\ UNCHANGED <<gallery, art, panelCount, subPanels, batch, workflowStep,
                   error, useBatch, provider, flight,
                   captions, store, app,
                   session,
                   character, viewStep>>

\* The per-item outcomes n requests of a batch can have: TRUE for a request
\* that produced an image, FALSE for one that failed.
ItemOutcomes(n) == [1..n -> BOOLEAN]

\* Job j ends with the given per-item outcomes.  The Google batch job
\* succeeds and its result file has a line for each request, an error line
\* for a failed one.  The OpenAI shim is a Promise.all over the calls: it
\* resolves with every response when no call rejects and rejects as a whole
\* when one does; what the calls did is kept in out, which the shim never
\* reads for a rejected job.
JobSettle(j, outcomes) ==
    /\ jobs[j].state = "running"
    /\ Awaited(j)
    /\ LET out == [k \in 1..Len(outcomes) |->
                      [custom |-> k - 1, ok |-> outcomes[k]]]
           rejected == provider = "openai" /\ \E k \in 1..Len(outcomes) : ~outcomes[k]
       IN  jobs' = [jobs EXCEPT ![j].state = IF rejected THEN "failed"
                                            ELSE "succeeded",
                                ![j].out = out]
    /\ UNCHANGED <<gallery, art, panelCount, subPanels, batch, workflowStep,
                   error, useBatch, provider, flight,
                   captions, store, app,
                   session,
                   character, viewStep>>

(***************************************************************************)
(* Refine stage: handleStartRefine, handleBatchRequest.                    *)
(***************************************************************************)
\* The refinePanel calls of a fan-out over panels, as a bag.
RECURSIVE FanOut(_, _)
FanOut(idxs, a) ==
    IF idxs = <<>> THEN EmptyBag
    ELSE SetToBag({[index |-> Head(idxs), setGen |-> FALSE, art |-> a]})
         (+) FanOut(Tail(idxs), a)

\* handleBatchRequest without its setBatchJobId(null).
BatchRequestStartKeepsId(shown, panelsToProcess) ==
    IF generatedArt = NoArt
    THEN /\ subPanels' = shown
         /\ UNCHANGED <<batch, error, submits, submitSeq>>
    ELSE /\ subPanels' = MarkTargets(shown, Range(Indices(panelsToProcess)),
                                     "generating")
         /\ batchStatus' = "pending"
         /\ batchJobId' = batchJobId
         /\ error' = NoError
         /\ submitSeq' = submitSeq + 1
         /\ submits' = submits \cup
                {[sid |-> submitSeq + 1,
                  targets |-> Indices(panelsToProcess),
                  art |-> generatedArt]}

\* handleBatchRequest(panelsToProcess) up to its await, after
\* setSubPanels(shown) of the caller.
BatchRequestStart(shown, panelsToProcess) ==
    IF generatedArt = NoArt
    THEN /\ subPanels' = shown
         /\ UNCHANGED <<batch, error, submits, submitSeq>>
    ELSE /\ subPanels' = MarkTargets(shown, Range(Indices(panelsToProcess)),
                                     "generating")
         /\ batchStatus' = "pending"
         /\ batchJobId' = NoJob
         /\ error' = NoError
         /\ submitSeq' = submitSeq + 1
         /\ submits' = submits \cup
                {[sid |-> submitSeq + 1,
                  targets |-> Indices(panelsToProcess),
                  art |-> generatedArt]}

\* handleStartRefine, batch mode: the panels and the batch submission.
StartRefineBatch(cap) ==
    /\ StartRefineEnabled
    /\ useBatch
    /\ submitSeq < cap
    /\ LET panels == NewPanels(panelCount, "pending")
       IN  BatchRequestStart(panels, panels)
    /\ workflowStep' = "refine_mode"
    /\ viewStep' = 4
    /\ UNCHANGED <<gallery, art, panelCount, useBatch, provider, polls,
                   gens, timers, jobs,
                   captions, store, app,
                   session,
                   character>>

\* The generating update without the index test:
\* prev.map(p => ({...p, status: 'generating'}))
PanelGenerationStartAll(shown, index, setGeneratingStatus) ==
    IF generatedArt = NoArt
    THEN shown
    ELSE IF setGeneratingStatus
    THEN MarkStatus(shown, Statuses, "generating")
    ELSE shown

\* processPanelGeneration(index, setGeneratingStatus) up to its await,
\* applied to the panel list shown.
PanelGenerationStart(shown, index, setGeneratingStatus) ==
    IF generatedArt = NoArt
    THEN shown
    ELSE IF setGeneratingStatus
    THEN MarkTargets(shown, {index}, "generating")
    ELSE shown

\* handleStartRefine, one call per panel.
StartRefineSingle ==
    /\ StartRefineEnabled
    /\ ~useBatch
    /\ BagCardinality(gens) + panelCount <= MaxGens
    /\ LET panels == NewPanels(panelCount, "generating")
       IN  /\ subPanels' = panels
           /\ gens' = IF generatedArt = NoArt THEN gens
                      ELSE gens (+) FanOut(Indices(panels), generatedArt)
    /\ workflowStep' = "refine_mode"
    /\ viewStep' = 4
    /\ UNCHANGED <<gallery, art, panelCount, batch, error, useBatch,
                   provider, submits, submitSeq, polls, timers,
                   jobs,
                   captions, store, app,
                   session,
                   character>>

\* refinePanelsBatch resolved: the provider created a job for submission s.
SubmitDone(s) ==
    /\ s \in submits
    /\ LET jobId == Len(jobs) + 1
       IN  /\ jobs' = Append(jobs, [sid |-> s.sid, reqs |-> s.targets,
                                    art |-> s.art, state |-> "running",
                                    out |-> <<>>])
           /\ batchJobId' = jobId
    /\ batchStatus' = "pending"
    /\ submits' = submits \ {s}
    /\ UNCHANGED <<gallery, art, panelCount, subPanels, workflowStep, error,
                   useBatch, provider, submitSeq, polls, gens, timers,
                   captions, store, app,
                   session,
                   character, viewStep>>

\* The catch block of handleBatchRequest with a setBatchJobId(null) added.
SubmitFailClearsId(s) ==
    /\ s \in submits
    /\ batchStatus' = "failed"
    /\ error' = MsgSubmitFailed
    /\ subPanels' = MarkTargets(subPanels, Range(s.targets), "error")
    /\ batchJobId' = NoJob
    /\ submits' = submits \ {s}
    /\ UNCHANGED <<gallery, art, panelCount, workflowStep,
                   useBatch, provider, submitSeq, polls, gens, timers, jobs,
                   captions, store, app,
                   session,
                   character, viewStep>>

\* refinePanelsBatch rejected: the catch block of handleBatchRequest.
SubmitFail(s) ==
    /\ s \in submits
    /\ batchStatus' = "failed"
    /\ error' = MsgSubmitFailed
    /\ subPanels' = MarkTargets(subPanels, Range(s.targets), "error")
    /\ submits' = submits \ {s}
    /\ UNCHANGED <<gallery, art, panelCount, batchJobId, workflowStep,
                   useBatch, provider, submitSeq, polls, gens, timers, jobs,
                   captions, store, app,
                   session,
                   character, viewStep>>

(***************************************************************************)
(* Single panels: generateSinglePanel, processPanelGeneration.             *)
(***************************************************************************)
\* The regenerate button of panel number k of the grid.
GenerateSinglePanel(k) ==
    /\ GridShown
    /\ k \in 1..Len(subPanels)
    /\ subPanels[k].status # "generating"
    /\ BagCardinality(gens) < MaxGens
    /\ subPanels' = PanelGenerationStart(subPanels, subPanels[k].index, TRUE)
    /\ gens' = IF generatedArt = NoArt THEN gens
               ELSE gens (+) SetToBag({[index |-> subPanels[k].index,
                                        setGen |-> TRUE,
                                        art |-> generatedArt]})
    /\ UNCHANGED <<gallery, art, panelCount, batch, workflowStep, error,
                   useBatch, provider, submits, submitSeq, polls, timers, jobs,
                   captions, store, app,
                   session,
                   character, viewStep>>

\* prev.map(p => p.index === index ? {...p, status: 'completed', imageUrl} : p)
PanelCompleted(prev, index, imageUrl) ==
    [k \in 1..Len(prev) |->
        IF prev[k].index = index
        THEN [prev[k] EXCEPT !.status = "completed", !.imageUrl = imageUrl]
        ELSE prev[k]]

\* The error update without the index test: prev.map(p => ({...p, status: 'error'}))
PanelFailedAll(prev, index) == MarkStatus(prev, Statuses, "error")

\* prev.map(p => p.index === index ? {...p, status: 'error'} : p)
PanelFailed(prev, index) == MarkTargets(prev, {index}, "error")

\* refinePanel resolved with an image for call g.
GenDone(g) ==
    /\ BagIn(g, gens)
    /\ subPanels' = PanelCompleted(subPanels, g.index,
                                   Img(g.index, g.art, NoJob))
    /\ gens' = gens (-) SetToBag({g})
    /\ UNCHANGED <<gallery, art, panelCount, batch, workflowStep, error,
                   useBatch, provider, submits, submitSeq, polls, timers, jobs,
                   captions, store, app,
                   session,
                   character, viewStep>>

\* refinePanel rejected for call g.
GenFail(g) ==
    /\ BagIn(g, gens)
    /\ subPanels' = PanelFailed(subPanels, g.index)
    /\ error' = IF g.setGen THEN MsgSingleFailed ELSE error
    /\ gens' = gens (-) SetToBag({g})
    /\ UNCHANGED <<gallery, art, panelCount, batch, workflowStep, useBatch,
                   provider, submits, submitSeq, polls, timers,
                   jobs,
                   captions, store, app,
                   session,
                   character, viewStep>>

(***************************************************************************)
(* Polling: handleRefreshBatch.                                            *)
(***************************************************************************)
\* handleRefreshBatch of a render in which batchJobId was seen, up to its
\* await: the polls in flight afterwards.  A poll is [jobId, resp]; resp is
\* "none" until checkBatchStatus settles, then the status it settled with.
RefreshBatchStart(seen) ==
    IF seen = NoJob THEN polls
    ELSE polls (+) SetToBag({[jobId |-> seen, resp |-> "none"]})

\* The refresh button of the Sidebar and of Step5Refine.
RefreshBatch ==
    /\ Step4Shown
    /\ batchJobId # NoJob
    /\ BagCardinality(polls) < MaxPolls
    /\ polls' = RefreshBatchStart(batchJobId)
    /\ UNCHANGED <<gallery, art, panelCount, subPanels, batch, workflowStep,
                   error, useBatch, provider, submits, submitSeq, gens,
                   timers, jobs,
                   captions, store, app,
                   session,
                   character, viewStep>>

\* The answers checkBatchStatus can give for jobId now.  The OpenAI shim
\* awaits the job's promise, so it does not answer while the job runs.
Answers(jobId) ==
    IF provider = "google"
    THEN {CheckBatchStatus(GoogleGetBatchStatus(jobId, net)) : net \in BOOLEAN}
         \cup {Threw}
    ELSE IF jobId \in KnownJobs /\ jobs[jobId].state = "running"
    THEN {Threw}
    ELSE {CheckBatchStatus(OpenAIGetBatchStatus(jobId)), Threw}

\* The result list of a 'completed' answer for jobId.  A finished job and
\* its result file never change, so the list is the same when the answer is
\* applied as when it was given.
CompletedResults(jobId) ==
    IF provider = "google"
    THEN CheckBatchStatus(GoogleGetBatchStatus(jobId, TRUE)).results
    ELSE CheckBatchStatus(OpenAIGetBatchStatus(jobId)).results

\* checkBatchStatus settles for poll p with answer r.
PollServe(p, r) ==
    /\ BagIn(p, polls)
    /\ p.resp = "none"
    /\ r \in Answers(p.jobId)
    /\ polls' = (polls (-) SetToBag({p}))
                (+) SetToBag({[jobId |-> p.jobId, resp |-> r.status]})
    /\ UNCHANGED <<gallery, art, panelCount, subPanels, batch, workflowStep,
                   error, useBatch, provider, submits, submitSeq, gens,
                   timers, jobs,
                   captions, store, app,
                   session,
                   character, viewStep>>

\* The 'completed' branch with a fallback that also resets a panel that
\* has no result and is not generating to 'pending'.
ApplyResultsResetsUnmatched(prev, results) ==
    [k \in 1..Len(prev) |->
        IF \E i \in 1..Len(results) : results[i].index = prev[k].index
        THEN LET i == CHOOSE i \in 1..Len(results) :
                        /\ results[i].index = prev[k].index
                        /\ \A m \in 1..Len(results) :
                              results[m].index = prev[k].index => m <= i
                 res == results[i]
             IN  [prev[k] EXCEPT
                    !.imageUrl = res.image,
                    !.status = IF res.image # NullImg THEN "completed"
                               ELSE "error"]
        ELSE IF prev[k].status = "generating"
        THEN [prev[k] EXCEPT !.status = "error"]
        ELSE [prev[k] EXCEPT !.status = "pending"]]

\* The 'completed' branch without its fallback: a generating panel that
\* has no result keeps its status.
ApplyResultsNoFallback(prev, results) ==
    [k \in 1..Len(prev) |->
        IF \E i \in 1..Len(results) : results[i].index = prev[k].index
        THEN LET i == CHOOSE i \in 1..Len(results) :
                        /\ results[i].index = prev[k].index
                        /\ \A m \in 1..Len(results) :
                              results[m].index = prev[k].index => m <= i
                 res == results[i]
             IN  [prev[k] EXCEPT
                    !.imageUrl = res.image,
                    !.status = IF res.image # NullImg THEN "completed"
                               ELSE "error"]
        ELSE prev[k]]

\* The panel update of the 'completed' branch of handleRefreshBatch:
\* resultMap = new Map(results.map(r => [r.index, r])), the last entry of
\* an index winning.
ApplyResults(prev, results) ==
    [k \in 1..Len(prev) |->
        IF \E i \in 1..Len(results) : results[i].index = prev[k].index
        THEN LET i == CHOOSE i \in 1..Len(results) :
                        /\ results[i].index = prev[k].index
                        /\ \A m \in 1..Len(results) :
                              results[m].index = prev[k].index => m <= i
                 res == results[i]
             IN  [prev[k] EXCEPT
                    !.imageUrl = res.image,
                    !.status = IF res.image # NullImg THEN "completed"
                               ELSE "error"]
        ELSE IF prev[k].status = "generating"
        THEN [prev[k] EXCEPT !.status = "error"]
        ELSE prev[k]]

\* The 'failed' branch with the status test dropped: every panel is put
\* in error.
ApplyFailedAll(prev) == MarkStatus(prev, Statuses, "error")

\* The panel update of the 'failed' branch of handleRefreshBatch.
ApplyFailed(prev) == MarkStatus(prev, {"generating"}, "error")

\* handleRefreshBatch whose last branch also stops the spinners, as the
\* 'failed' branch does.
PollApplyPendingStops(p) ==
    /\ BagIn(p, polls)
    /\ p.resp # "none"
    /\ polls' = polls (-) SetToBag({p})
    /\ CASE p.resp = "completed" ->
              /\ batchStatus' = "completed"
              /\ subPanels' = ApplyResults(subPanels, CompletedResults(p.jobId))
              /\ UNCHANGED error
         [] p.resp = "failed" ->
              /\ batchStatus' = "failed"
              /\ error' = MsgBatchFailed
              /\ subPanels' = ApplyFailed(subPanels)
         [] p.resp = "pending" ->
              /\ batchStatus' = "pending"
              /\ subPanels' = ApplyFailed(subPanels)
              /\ UNCHANGED error
         [] p.resp = "threw" ->
              /\ error' = MsgCheckFailed
              /\ UNCHANGED <<subPanels, batchStatus,
                   session,
                   character, viewStep>>
    /\ UNCHANGED <<gallery, art, panelCount, batchJobId, workflowStep,
                   useBatch, provider, submits, submitSeq, gens, timers, jobs,
                   captions, store, app,
                   session,
                   character, viewStep>>

\* handleRefreshBatch after its await, for the answer carried by poll p.
PollApply(p) ==
    /\ BagIn(p, polls)
    /\ p.resp # "none"
    /\ polls' = polls (-) SetToBag({p})
    /\ CASE p.resp = "completed" ->
              /\ batchStatus' = "completed"
              /\ subPanels' = ApplyResults(subPanels, CompletedResults(p.jobId))
              /\ UNCHANGED error
         [] p.resp = "failed" ->
              /\ batchStatus' = "failed"
              /\ error' = MsgBatchFailed
              /\ subPanels' = ApplyFailed(subPanels)
         [] p.resp = "pending" ->
              /\ batchStatus' = "pending"
              /\ UNCHANGED <<subPanels, error,
                   session,
                   character, viewStep>>
         [] p.resp = "threw" ->
              /\ error' = MsgCheckFailed
              /\ UNCHANGED <<subPanels, batchStatus,
                   session,
                   character, viewStep>>
    /\ UNCHANGED <<gallery, art, panelCount, batchJobId, workflowStep,
                   useBatch, provider, submits, submitSeq, gens, timers, jobs,
                   captions, store, app,
                   session,
                   character, viewStep>>

(***************************************************************************)
(* Recovery: handleRecoverBatch.                                           *)
(***************************************************************************)
\* The ids a user can type: a job of the provider or an id unknown to it.
RecoverIds == KnownJobs \cup {ForeignJob}

\* The number of placeholder panels without the default: panelCount.
RecoverPanelCountNoDefault(n) == n

\* The number of placeholder panels: panelCount || 10.
RecoverPanelCount(n) == IF n # 0 THEN n ELSE DefaultRecoverPanels

\* The recover button of the Sidebar, shown while no job is attached.
\* The timer keeps the handleRefreshBatch of the render that handled the
\* click, and with it the batchJobId of that render.
RecoverBatch(jobId) ==
    /\ Step4Shown
    /\ batchJobId = NoJob
    /\ jobId \in RecoverIds
    /\ BagCardinality(timers) = 0
    /\ batchJobId' = jobId
    /\ batchStatus' = "pending"
    /\ subPanels' = IF Len(subPanels) = 0
                    THEN NewPanels(RecoverPanelCount(panelCount), "generating")
                    ELSE MarkStatus(subPanels, {"pending", "error"},
                                    "generating")
    /\ workflowStep' = "refine_mode"
    /\ timers' = timers (+) SetToBag({[jobId |-> jobId, seen |-> batchJobId]})
    /\ viewStep' = 4
    /\ UNCHANGED <<gallery, art, panelCount, error, useBatch, provider,
                   submits, submitSeq, polls, gens, jobs,
                   captions, store, app,
                   session,
                   character>>

\* setTimeout(() => handleRefreshBatch(), 100) fires.
RecoverTimerFire(t) ==
    /\ BagIn(t, timers)
    /\ BagCardinality(polls) < MaxPolls
    /\ timers' = timers (-) SetToBag({t})
    /\ polls' = RefreshBatchStart(t.seen)
    /\ UNCHANGED <<gallery, art, panelCount, subPanels, batch, workflowStep,
                   error, useBatch, provider, submits, submitSeq, gens, jobs,
                   captions, store, app,
                   session,
                   character, viewStep>>

(***************************************************************************)
(* Captions and cover: handleGenerateCaption, handleGenerateCover.         *)
(* The caption list and the cover controls belong to a Sidebar revision    *)
(* that is not part of the sources; they are taken to be shown with the    *)
(* caption step and the cover button to be disabled while a cover is       *)
(* being generated.                                                        *)
(***************************************************************************)
\* handleGenerateCaption up to its await.
GenerateCaption ==
    /\ Step4Shown /\ ~isGeneratingCaptions /\ ~isGeneratingImage
    /\ captionCalls < MaxCaptions
    /\ captionCalls' = captionCalls + 1
    /\ isGeneratingCaptions' = TRUE
    /\ error' = NoError
    /\ captionOptions' = <<>>
    /\ selectedCaption' = NoCaption
    /\ viewStep' = 5
    /\ UNCHANGED <<gallery, art, panelCount, subPanels, batch, workflowStep,
                   useBatch, provider, flight, jobs, coverImage,
                   isGeneratingCover, coverCalls, store, app,
                   session,
                   character>>

\* GeminiService.generateCaptions resolved with one option.
CaptionDone ==
    /\ isGeneratingCaptions
    /\ captionOptions' = <<captionCalls>>
    /\ isGeneratingCaptions' = FALSE
    /\ UNCHANGED <<gallery, art, panelCount, subPanels, batch, workflowStep,
                   error, useBatch, provider, flight, jobs, selectedCaption,
                   coverImage, isGeneratingCover, captionCalls, coverCalls,
                   store, app,
                   session,
                   character, viewStep>>

\* GeminiService.generateCaptions rejected.
CaptionFail ==
    /\ isGeneratingCaptions
    /\ error' = MsgProvider
    /\ isGeneratingCaptions' = FALSE
    /\ UNCHANGED <<gallery, art, panelCount, subPanels, batch, workflowStep,
                   useBatch, provider, flight, jobs, captionOptions,
                   selectedCaption, coverImage, isGeneratingCover,
                   captionCalls, coverCalls, store, app,
                   session,
                   character, viewStep>>

\* onSelectCaption(opt): one of the options shown is selected, or the
\* selection is dropped (opt null).
SelectCaption(opt) ==
    /\ Step4Shown
    /\ opt \in Range(captionOptions) \cup {NoCaption}
    /\ opt # selectedCaption
    /\ selectedCaption' = opt
    /\ UNCHANGED <<gallery, art, panelCount, subPanels, batch, workflowStep,
                   error, useBatch, provider, flight, jobs, captionOptions,
                   coverImage, isGeneratingCaptions, isGeneratingCover,
                   captionCalls, coverCalls, store, app,
                   session,
                   character, viewStep>>

\* handleGenerateCover, were it to validate nothing.
CoverRejectedNever == FALSE

\* handleGenerateCover: the inputs it refuses.
CoverRejected ==
    selectedCaption = NoCaption \/ ~activeStrategy \/ Len(sourceFrames) = 0

\* handleGenerateCover up to its await.
GenerateCover ==
    /\ Step4Shown /\ ~isGeneratingCover
    /\ coverCalls < MaxCovers
    /\ IF CoverRejected
       THEN /\ error' = MsgNoCaption
            /\ UNCHANGED <<isGeneratingCover, coverCalls, viewStep>>
       ELSE /\ isGeneratingCover' = TRUE
            /\ coverCalls' = coverCalls + 1
            /\ error' = NoError
            /\ viewStep' = 6
    /\ UNCHANGED <<gallery, art, panelCount, subPanels, batch, workflowStep,
                   useBatch, provider, flight, jobs, captionOptions,
                   selectedCaption, coverImage, isGeneratingCaptions,
                   captionCalls, store, app,
                   session,
                   character>>

\* GeminiService.generateCover resolved with an image.
CoverDone ==
    /\ isGeneratingCover
    /\ coverImage' = coverCalls
    /\ workflowStep' = "cover_mode"
    /\ isGeneratingCover' = FALSE
    /\ UNCHANGED <<gallery, art, panelCount, subPanels, batch, error,
                   useBatch, provider, flight, jobs, captionOptions,
                   selectedCaption, isGeneratingCaptions, captionCalls,
                   coverCalls, store, app,
                   session,
                   character, viewStep>>

\* GeminiService.generateCover rejected.
CoverFail ==
    /\ isGeneratingCover
    /\ error' = MsgProvider
    /\ isGeneratingCover' = FALSE
    /\ UNCHANGED <<gallery, art, panelCount, subPanels, batch, workflowStep,
                   useBatch, provider, flight, jobs, captionOptions,
                   selectedCaption, coverImage, isGeneratingCaptions,
                   captionCalls, coverCalls, store, app,
                   session,
                   character, viewStep>>

(***************************************************************************)
(* StorageService: the 'projects' object store, keyPath 'id'.  A call is   *)
(* one IndexedDB transaction and is taken here as one step.                *)
(***************************************************************************)
\* The call record of the next StorageService call.
Called(op, id, arg) ==
    [seq |-> call.seq + 1, op |-> op, id |-> id, arg |-> arg, at |-> clock]

\* What saveProject(state) does to the store.
Saves(state) ==
    /\ db' = Put(db, SavedRecord(state, clock))
    /\ call' = Called("save", state.id, state)

\* What updateProject(id, updates) does to the store.
Updates(id, updates) ==
    /\ db' = UpdatedStore(db, id, updates, clock)
    /\ call' = Called("update", id, updates)

\* Time passes.
Tick ==
    /\ clock < MaxClock
    /\ clock' = clock + 1
    /\ UNCHANGED <<gallery, art, panelCount, subPanels, batch, workflowStep,
                   error, useBatch, provider, flight, jobs, captions, db, got,
                   call, app,
                   session,
                   character, viewStep>>

\* StorageService.saveProject(state).
SaveProject(state) ==
    /\ call.seq < MaxCalls
    /\ Saves(state)
    /\ UNCHANGED <<gallery, art, panelCount, subPanels, batch, workflowStep,
                   error, useBatch, provider, flight, jobs, captions, clock,
                   got, app,
                   session,
                   character, viewStep>>

\* StorageService.updateProject(id, updates).
UpdateProject(id, updates) ==
    /\ call.seq < MaxCalls
    /\ Updates(id, updates)
    /\ UNCHANGED <<gallery, art, panelCount, subPanels, batch, workflowStep,
                   error, useBatch, provider, flight, jobs, captions, clock,
                   got, app,
                   session,
                   character, viewStep>>

\* StorageService.getProject(id).
GetProject(id) ==
    /\ call.seq < MaxCalls
    /\ got' = Fetched(db, id)
    /\ call' = Called("get", id, NoRecord)
    /\ UNCHANGED <<gallery, art, panelCount, subPanels, batch, workflowStep,
                   error, useBatch, provider, flight, jobs, captions, db,
                   clock, app,
                   session,
                   character, viewStep>>

\* StorageService.deleteProject(id).
DeleteProject(id) ==
    /\ call.seq < MaxCalls
    /\ db' = [db EXCEPT ![id] = NoRecord]
    /\ call' = Called("delete", id, NoRecord)
    /\ UNCHANGED <<gallery, art, panelCount, subPanels, batch, workflowStep,
                   error, useBatch, provider, flight, jobs, captions, clock,
                   got, app,
                   session,
                   character, viewStep>>

\* The partial records handed to updateProject: a rename, a new video
\* with tags, a partial that carries another id, and a snapshot that
\* carries its own, possibly older, lastUpdated.
Partials ==
    {[name |-> "renamed"],
     [videoUrl |-> "url2", tags |-> <<1>>],
     [id |-> "b", name |-> "renamed"]}
    \cup {[lastUpdated |-> t, panelCount |-> 2] : t \in 0..clock}

\* The projects handed to saveProject: ids come from generateId.
Projects ==
    {NewProject(id, "local", <<>>, t) : id \in Keys \ {""}, t \in 0..clock}

(***************************************************************************)
(* StorageService calls in flight.  saveProject and updateProject await    *)
(* getDB() and then run one readwrite transaction on the store; IndexedDB  *)
(* runs the readwrite transactions of one store one at a time, in the      *)
(* order in which they were created, which is the order of the calls.      *)
(***************************************************************************)
\* The call in flight made by op(id, arg); seen and after record the moment
\* of the call: the record then stored, the calls served until then.
Issued(op, id, arg) ==
    [op |-> op, id |-> id, arg |-> arg, seen |-> db[id], after |-> call.seq]

\* The newest call goes first.
NextWriteNewest(q) == Len(q)

\* The place in the queue of the transaction that runs next.
NextWrite(q) == 1

\* The record read when the call was made.
ExistingAtIssue(d, w) == w.seen

\* store.get(id) inside the transaction of call w.
Existing(d, w) == d[w.id]

\* The store after the transaction of call w has run at time now.
Committed(d, w, now) ==
    IF w.op = "save"
    THEN Put(d, SavedRecord(w.arg, now))
    ELSE UpdatedStore([d EXCEPT ![w.id] = Existing(d, w)], w.id, w.arg, now)

Remove(q, i) == SubSeq(q, 1, i - 1) \o SubSeq(q, i + 1, Len(q))

\* saveProject(state) up to its await.
SaveIssue(state) ==
    /\ Len(writes) < MaxWrites
    /\ call.seq + Len(writes) < MaxCalls
    /\ writes' = Append(writes, Issued("save", state.id, state))
    /\ UNCHANGED <<gallery, art, panelCount, subPanels, batch, workflowStep,
                   error, useBatch, provider, flight, jobs, captions, store,
                   app, saveTimer, captured,
                   character, viewStep, failure, steps>>

\* updateProject(id, updates) up to its await; with an empty id it returns
\* at once.
UpdateIssue(id, updates) ==
    /\ id # ""
    /\ Len(writes) < MaxWrites
    /\ call.seq + Len(writes) < MaxCalls
    /\ writes' = Append(writes, Issued("update", id, updates))
    /\ UNCHANGED <<gallery, art, panelCount, subPanels, batch, workflowStep,
                   error, useBatch, provider, flight, jobs, captions, store,
                   app, saveTimer, captured,
                   character, viewStep, failure, steps>>

\* The transaction of the next call in flight runs: get and put in one.
WriteCommit ==
    /\ writes # <<>>
    /\ LET i == NextWrite(writes)
           w == writes[i]
       IN /\ db' = Committed(db, w, clock)
          /\ call' = Called(w.op, w.id, w.arg)
          /\ writes' = Remove(writes, i)
    /\ UNCHANGED <<gallery, art, panelCount, subPanels, batch, workflowStep,
                   error, useBatch, provider, flight, jobs, captions, clock,
                   got, app, saveTimer, captured,
                   character, viewStep, failure, steps>>

\* App.loadProject(id) up to its first await after getProject: the record
\* is read, and for a web project the video link is fetched again
\* (extractWebVideoUrl) before anything is written.
LoadProject(id) ==
    /\ id # ""
    /\ writes = <<>>
    /\ call.seq < MaxCalls
    /\ got' = Fetched(db, id)
    /\ call' = Called("get", id, NoRecord)
    /\ refreshing' =
          IF Fetched(db, id) # NoRecord /\ Fetched(db, id).sourceType = "web"
          THEN refreshing \cup {id}
          ELSE refreshing
    /\ UNCHANGED <<gallery, art, panelCount, subPanels, batch, workflowStep,
                   error, useBatch, provider, flight, jobs, captions, db,
                   clock, showGallery, sourceType, loadedSourceFrames, tags,
                   session, character, viewStep>>

\* App.handleRetryWebLoad for the open web project id, up to its await of
\* extractWebVideoUrl; its button is disabled while a fetch is going on.
RetryWebLoad(id) ==
    /\ id # ""
    /\ db[id] # NoRecord
    /\ db[id].sourceType = "web"
    /\ refreshing = {}
    /\ refreshing' = {id}
    /\ UNCHANGED <<gallery, art, panelCount, subPanels, batch, workflowStep,
                   error, useBatch, provider, flight, jobs, captions, store,
                   showGallery, sourceType, loadedSourceFrames, tags,
                   session, character, viewStep>>

\* extractWebVideoUrl resolved for id: loadProject and handleRetryWebLoad
\* go on to updateProject(id, { videoUrl: metadata.url }).
LinkRefreshDone(id) ==
    /\ id \in refreshing
    /\ Len(writes) < MaxWrites
    /\ call.seq + Len(writes) < MaxAppCalls
    /\ refreshing' = refreshing \ {id}
    /\ writes' = Append(writes, Issued("update", id, [videoUrl |-> "url2"]))
    /\ UNCHANGED <<gallery, art, panelCount, subPanels, batch, workflowStep,
                   error, useBatch, provider, flight, jobs, captions, store,
                   showGallery, sourceType, loadedSourceFrames, tags,
                   saveTimer, captured, failure, steps, character, viewStep>>

\* extractWebVideoUrl rejected for id: nothing is written.
LinkRefreshFail(id) ==
    /\ id \in refreshing
    /\ refreshing' = refreshing \ {id}
    /\ UNCHANGED <<gallery, art, panelCount, subPanels, batch, workflowStep,
                   error, useBatch, provider, flight, jobs, captions, store,
                   showGallery, sourceType, loadedSourceFrames, tags,
                   session, character, viewStep>>

\* The web projects handed to saveProject.
WebProjects ==
    {NewProject(id, "web", <<>>, t) : id \in Keys \ {""}, t \in 0..clock}

\* How a StorageService call settles on a failure.  The open is awaited
\* inside try, so its failure is caught and the call resolves (getProject
\* with null); the request's promise is returned without await, so its
\* rejection passes the catch and reaches the caller.
Outcome(at) == IF at = "open" THEN "resolved" ELSE "rejected"

\* The callers of StorageService and whether they handle a rejection:
\* autosave (.catch), restoreState and loadProject (try), and the App's
\* handlers, which do not.
Callers ==
    {[op |-> "update", caught |-> TRUE], [op |-> "get", caught |-> TRUE],
     [op |-> "save", caught |-> FALSE], [op |-> "update", caught |-> FALSE],
     [op |-> "delete", caught |-> FALSE]}

\* A call of saveProject, updateProject, getProject or deleteProject meets
\* a failure: of indexedDB.open, at the first call or, the rejected promise
\* being kept, at every call after a failed open; or of its request.
StorageFails(caller, id, at) ==
    /\ caller \in Callers
    /\ id # ""
    /\ call.seq < MaxCalls
    /\ at = "open" => call.seq = 0 \/ failure.at = "open"
    /\ at = "request" => failure.at # "open"
    /\ failure' = [op |-> caller.op, at |-> at, outcome |-> Outcome(at),
                   caught |-> caller.caught]
    /\ call' = Called(caller.op, id, NoRecord)
    /\ got' = IF caller.op = "get" THEN NoRecord ELSE got
    /\ UNCHANGED <<gallery, art, panelCount, subPanels, batch, workflowStep,
                   error, useBatch, provider, flight, jobs, captions, db,
                   clock, app, writes, saveTimer, captured, steps,
                   character, viewStep>>

\* The partial records the App hands to updateProject: a rename, new tags,
\* a new video.
AppPartials ==
    {[name |-> "renamed"], [tags |-> <<1>>], [videoUrl |-> "url2"]}

(***************************************************************************)
(* Frames and their descriptions: Step1Input's edits, and the App around   *)
(* the gallery (project creation, tags, opening and closing the overlay).  *)
(***************************************************************************)
Max(a, b) == IF a > b THEN a ELSE b

\* The updater that writes the description one place too far.
SetAtNext(prev, index, text) ==
    [k \in 1..Max(Len(prev), index + 2) |->
        IF k = index + 2 THEN text
        ELSE IF k <= Len(prev) THEN prev[k] ELSE ""]

\* The updater of handleStepDescriptionChange: pad with '' up to index,
\* then next[index] = text (index counts from 0).
SetAt(prev, index, text) ==
    [k \in 1..Max(Len(prev), index + 1) |->
        IF k = index + 1 THEN text
        ELSE IF k <= Len(prev) THEN prev[k] ELSE ""]

\* while (list.length < n) list.push('')
PadTo(list, n) ==
    list \o [k \in 1..Max(n - Len(list), 0) |-> ""]

\* const [moved] = list.splice(dragIndex, 1); list.splice(dropIndex, 0, moved)
Move(list, dragIndex, dropIndex) ==
    LET rest == SubSeq(list, 1, dragIndex)
                    \o SubSeq(list, dragIndex + 2, Len(list))
    IN SubSeq(rest, 1, dropIndex) \o <<list[dragIndex + 1]>>
           \o SubSeq(rest, dropIndex + 1, Len(rest))

\* list.filter(x => x !== id), for tags and for frames by tagId.
Without(list, id) == SelectSeq(list, LAMBDA x : x # id)

\* saved.field || fallback
Field(saved, field, fallback) ==
    IF field \in DOMAIN saved THEN saved[field] ELSE fallback

\* Step1Input with its frame cards, not its loading view.
Step1InputShown == SidebarShown /\ ~isAnalyzingSteps

\* handleStepDescriptionChange(index, text), from the textarea of a frame.
StepDescriptionChange(index, text) ==
    /\ Step1InputShown
    /\ Len(stepDescriptions) > 0
    /\ index \in 0..(Len(sourceFrames) - 1)
    /\ stepDescriptions' = SetAt(stepDescriptions, index, text)
    /\ UNCHANGED <<isRestoring, activeStrategy, sourceFrames, isLoadingFrames,
                   isAnalyzingSteps, analyzeCalls, art, panelCount, subPanels,
                   batch, workflowStep, error, useBatch, provider, flight,
                   jobs, captions, store, app,
                   session,
                   character, viewStep>>

\* handleReorderFrames(dragIndex, dropIndex), from dropping a frame card.
ReorderFrames(dragIndex, dropIndex) ==
    /\ Step1InputShown
    /\ dragIndex \in 0..(Len(sourceFrames) - 1)
    /\ dropIndex \in 0..(Len(sourceFrames) - 1)
    /\ dragIndex # dropIndex
    /\ sourceFrames' = Move(sourceFrames, dragIndex, dropIndex)
    /\ IF Len(stepDescriptions) > 0
       THEN stepDescriptions' =
                Move(PadTo(stepDescriptions, Len(sourceFrames)),
                     dragIndex, dropIndex)
       ELSE UNCHANGED stepDescriptions
    /\ UNCHANGED <<isRestoring, activeStrategy, isLoadingFrames,
                   isAnalyzingSteps, analyzeCalls, art, panelCount, subPanels,
                   batch, workflowStep, error, useBatch, provider, flight,
                   jobs, captions, store, app,
                   session,
                   character, viewStep>>

\* The partial the autosave effect writes: the gallery's state.
Snapshot ==
    [lastUpdated |-> clock, activeStrategyId |-> activeStrategy,
     sourceFrames |-> sourceFrames, stepDescriptions |-> stepDescriptions,
     baseArt |-> baseArt, generatedArt |-> generatedArt,
     panelCount |-> panelCount, subPanels |-> subPanels,
     captionOptions |-> captionOptions, selectedCaption |-> selectedCaption,
     coverImage |-> coverImage, workflowStep |-> workflowStep,
     batchJobId |-> batchJobId, batchStatus |-> batchStatus,
     avatarImage |-> avatarImage, watermarkText |-> watermarkText,
     viewStep |-> viewStep, aspectRatio |-> aspectRatio]

\* The autosave effect's timer fires.
Autosave ==
    /\ showGallery /\ ~isRestoring
    /\ call.seq < MaxAppCalls
    /\ Updates(ProjectId, Snapshot)
    /\ UNCHANGED <<gallery, art, panelCount, subPanels, batch, workflowStep,
                   error, useBatch, provider, flight, jobs, captions, clock,
                   got, app,
                   session,
                   character, viewStep>>

\* The state the autosave effect depends on and captures.
Persisted == [f \in DOMAIN Snapshot \ {"lastUpdated"} |-> Snapshot[f]]

\* The autosave effect has to run whatever isRestoring is.
EffectPendingAlways ==
    showGallery /\ saveTimer.state # Persisted

\* The autosave effect has to run: the gallery has rendered, restored, with
\* state other than that of the effect's last run.
EffectPending ==
    showGallery /\ ~isRestoring /\ saveTimer.state # Persisted

\* clearTimeout(saveTimeoutRef.current); setTimeout(..., 1000)
Scheduled(timer, state, now) ==
    [live |-> TRUE, due |-> now + QuietPeriod, state |-> state]

\* The timeout has run out.
TimerDue == saveTimer.live /\ clock >= saveTimer.due

\* The autosave effect runs after a render: the timeout is replaced.
AutosaveEffect ==
    /\ EffectPending
    /\ saveTimer' = Scheduled(saveTimer, Persisted, clock)
    /\ UNCHANGED <<gallery, art, panelCount, subPanels, batch, workflowStep,
                   error, useBatch, provider, flight, jobs, captions, store,
                   app, writes, captured,
                   character, viewStep, failure, steps>>

\* The timeout's callback: updateProject(projectId, stateUpdates), with the
\* state of the render that set the timeout.  The effect of a render runs
\* before the next timeout does.
AutosaveFire ==
    /\ showGallery /\ TimerDue /\ ~EffectPending
    /\ Len(writes) < MaxWrites
    /\ call.seq + Len(writes) < MaxAppCalls
    /\ writes' = Append(writes,
                   Issued("update", ProjectId,
                          Merge(saveTimer.state, [lastUpdated |-> clock])))
    /\ saveTimer' = [saveTimer EXCEPT !.live = FALSE]
    /\ UNCHANGED <<gallery, art, panelCount, subPanels, batch, workflowStep,
                   error, useBatch, provider, flight, jobs, captions, store,
                   app, captured,
                   character, viewStep, failure, steps>>

\* Time passes, once the effects of the last render have run and unless
\* a timeout is due.
Elapse ==
    /\ clock < MaxTime
    /\ ~EffectPending /\ ~TimerDue
    /\ clock' = clock + 1
    /\ UNCHANGED <<gallery, art, panelCount, subPanels, batch, workflowStep,
                   error, useBatch, provider, flight, jobs, captions, db, got,
                   call, app, session,
                   character, viewStep>>

\* saved.field || fallback, where falsy is the falsy value of the field's type.
OrElse(saved, field, falsy, fallback) ==
    IF field \in DOMAIN saved /\ saved[field] # falsy
    THEN saved[field]
    ELSE fallback

\* The step a gallery is restored to, were the saved one not read.
RestoredViewStepFirst(saved) == 1

\* setViewStep(savedProject.viewStep || 1)
RestoredViewStep(saved) == OrElse(saved, "viewStep", 0, 1)

\* restoreState for a project id with a saved record.
RestoreSaved ==
    /\ showGallery /\ isRestoring
    /\ call.seq < MaxAppCalls
    /\ Fetched(db, ProjectId) # NoRecord
    /\ LET savedProject == Fetched(db, ProjectId)
       IN /\ activeStrategy' =
                 (Field(savedProject, "activeStrategyId", FALSE)
                     \/ activeStrategy)
          /\ sourceFrames' = Field(savedProject, "sourceFrames", <<>>)
          /\ stepDescriptions' = Field(savedProject, "stepDescriptions", <<>>)
          /\ baseArt' = Field(savedProject, "baseArt", NoArt)
          /\ generatedArt' = Field(savedProject, "generatedArt", NoArt)
          /\ panelCount' = Field(savedProject, "panelCount", 0)
          /\ subPanels' = Field(savedProject, "subPanels", <<>>)
          /\ captionOptions' = Field(savedProject, "captionOptions", <<>>)
          /\ selectedCaption' = Field(savedProject, "selectedCaption", NoCaption)
          /\ coverImage' = Field(savedProject, "coverImage", NoCover)
          /\ workflowStep' = Field(savedProject, "workflowStep", "input")
          /\ batchJobId' = Field(savedProject, "batchJobId", NoJob)
          /\ batchStatus' = Field(savedProject, "batchStatus", "idle")
          /\ avatarImage' = Field(savedProject, "avatarImage", avatarImage)
          /\ watermarkText' =
                 Field(savedProject, "watermarkText", watermarkText)
          /\ viewStep' = RestoredViewStep(savedProject)
          /\ aspectRatio' =
                 OrElse(savedProject, "aspectRatio", "", DefaultRatio)
    /\ isRestoring' = FALSE
    /\ got' = Fetched(db, ProjectId)
    /\ call' = Called("get", ProjectId, NoRecord)
    /\ UNCHANGED <<isLoadingFrames, isAnalyzingSteps, analyzeCalls,
                   isGeneratingImage, baseCalls, error, useBatch, provider,
                   flight, jobs, isGeneratingCaptions, isGeneratingCover,
                   captionCalls, coverCalls, db, clock, app,
                   session, integrating>>

\* restoreState when the read of getProject fails with the database open:
\* the request or its transaction fails, the promise rejects past the catch
\* of getProject into the catch of restoreState, and finally clears
\* isRestoring; no state of the gallery is set.
RestoreFails ==
    /\ showGallery /\ isRestoring
    /\ call.seq < MaxAppCalls
    /\ Fetched(db, ProjectId) # NoRecord
    /\ failure = NoFailure
    /\ isRestoring' = FALSE
    /\ failure' = [op |-> "get", at |-> "request",
                   outcome |-> Outcome("request"), caught |-> TRUE]
    /\ call' = Called("get", ProjectId, NoRecord)
    /\ UNCHANGED <<activeStrategy, sourceFrames, isLoadingFrames,
                   stepDescriptions, isAnalyzingSteps, analyzeCalls, art,
                   panelCount, subPanels, batch, workflowStep, error,
                   useBatch, provider, flight, jobs, captions, db, clock,
                   got, app, writes, saveTimer, captured, steps, character,
                   viewStep>>

\* App.handleCreateProject: an image project with n images, or a video
\* project (n = 0).
CreateProject(type, n) ==
    /\ ~showGallery
    /\ db[ProjectId] = NoRecord
    /\ call.seq < MaxAppCalls
    /\ type = "local" => n = 0
    /\ LET initialFrames == [k \in 1..n |-> k]
       IN /\ Saves(NewProject(ProjectId, type, initialFrames, clock))
          /\ loadedSourceFrames' = initialFrames
          /\ tags' = initialFrames
    /\ sourceType' = type
    /\ UNCHANGED <<gallery, art, panelCount, subPanels, batch, workflowStep,
                   error, useBatch, provider, flight, jobs, captions, clock,
                   got, showGallery,
                   session,
                   character, viewStep>>
    /\ UNCHANGED refreshing

\* App.handleAddTag, on a video project.
AddTag ==
    /\ ~showGallery
    /\ db[ProjectId] # NoRecord
    /\ sourceType = "local"
    /\ Len(tags) < MaxReorderFrames
    /\ call.seq < MaxAppCalls
    /\ tags' = Append(tags, Len(tags) + 1)
    /\ Updates(ProjectId, [tags |-> tags'])
    /\ UNCHANGED <<gallery, art, panelCount, subPanels, batch, workflowStep,
                   error, useBatch, provider, flight, jobs, captions, clock,
                   got, showGallery, sourceType, loadedSourceFrames,
                   session,
                   character, viewStep>>
    /\ UNCHANGED refreshing

\* App.handleRemoveTag(id).
RemoveTag(id) ==
    /\ ~showGallery
    /\ db[ProjectId] # NoRecord
    /\ id \in Range(tags)
    /\ call.seq < MaxAppCalls
    /\ tags' = Without(tags, id)
    /\ IF sourceType = "images"
       THEN /\ loadedSourceFrames' = Without(loadedSourceFrames, id)
            /\ Updates(ProjectId, [tags |-> tags',
                                   sourceFrames |-> loadedSourceFrames'])
       ELSE /\ Updates(ProjectId, [tags |-> tags'])
            /\ UNCHANGED loadedSourceFrames
    /\ UNCHANGED <<gallery, art, panelCount, subPanels, batch, workflowStep,
                   error, useBatch, provider, flight, jobs, captions, clock,
                   got, showGallery, sourceType,
                   session,
                   character, viewStep>>
    /\ UNCHANGED refreshing

\* onClearTags: every tag, and in image mode every frame, is removed.
ClearTags ==
    /\ ~showGallery
    /\ db[ProjectId] # NoRecord
    /\ Len(tags) > 0
    /\ call.seq < MaxAppCalls
    /\ tags' = <<>>
    /\ IF sourceType = "images"
       THEN /\ loadedSourceFrames' = <<>>
            /\ Updates(ProjectId, [tags |-> <<>>, sourceFrames |-> <<>>])
       ELSE /\ Updates(ProjectId, [tags |-> <<>>])
            /\ UNCHANGED loadedSourceFrames
    /\ UNCHANGED <<gallery, art, panelCount, subPanels, batch, workflowStep,
                   error, useBatch, provider, flight, jobs, captions, clock,
                   got, showGallery, sourceType,
                   session,
                   character, viewStep>>
    /\ UNCHANGED refreshing

\* onGenerateArt: the gallery is mounted, every useState at its initial value.
OpenGallery ==
    /\ ~showGallery
    /\ db[ProjectId] # NoRecord
    /\ Len(tags) > 0    \* the button is disabled without tags
    /\ showGallery' = TRUE
    /\ isRestoring' = TRUE
    /\ activeStrategy' = FALSE
    /\ sourceFrames' = <<>>
    /\ isLoadingFrames' = FALSE
    /\ stepDescriptions' = <<>>
    /\ isAnalyzingSteps' = FALSE
    /\ baseArt' = NoArt
    /\ generatedArt' = NoArt
    /\ isGeneratingImage' = FALSE
    /\ panelCount' = 0
    /\ subPanels' = <<>>
    /\ batchJobId' = NoJob
    /\ batchStatus' = "idle"
    /\ workflowStep' = "input"
    /\ error' = NoError
    /\ captionOptions' = <<>>
    /\ selectedCaption' = NoCaption
    /\ coverImage' = NoCover
    /\ isGeneratingCaptions' = FALSE
    /\ isGeneratingCover' = FALSE
    /\ submits' = {}
    /\ polls' = EmptyBag
    /\ gens' = EmptyBag
    /\ timers' = EmptyBag
    /\ saveTimer' = NoTimer
    /\ captured' = FALSE
    /\ aspectRatio' = DefaultRatio
    /\ integrating' = FALSE
    /\ viewStep' = 1
    /\ UNCHANGED <<avatarImage, watermarkText>>
    /\ UNCHANGED <<analyzeCalls, baseCalls, submitSeq, captionCalls,
                   coverCalls, useBatch, provider, jobs, store, sourceType,
                   loadedSourceFrames, tags, writes, failure, steps>>
    /\ UNCHANGED refreshing

\* onClose: the gallery is unmounted; what its pending calls resolve with
\* is dropped, and the cleanup of the autosave effect clears its timeout.
CloseGallery ==
    /\ showGallery
    /\ showGallery' = FALSE
    /\ saveTimer' = NoTimer
    /\ UNCHANGED <<gallery, art, panelCount, subPanels, batch, workflowStep,
                   error, useBatch, provider, flight, jobs, captions, store,
                   sourceType, loadedSourceFrames, tags, writes, captured,
                   character, viewStep, failure, steps>>
    /\ UNCHANGED refreshing

(***************************************************************************)
(* The specification.                                                      *)
(***************************************************************************)
\* Opening the gallery and the stages before refinement.
NextOpen ==
    \/ RestoreDone
    \/ SelectStrategy
    \/ InitGalleryStart
    \/ \E n \in 0..MaxFrames : InitGalleryDone(n)
    \/ AnalyzeSteps(MaxAnalyze)
    \/ AnalyzeDone
    \/ AnalyzeFail
    \/ GenerateBase(MaxBase)
    \/ GenerateBaseDone
    \/ GenerateBaseFail

\* Submitting, polling and recovering, shared by the two batch
\* specifications.
NextPoll ==
    \/ \E s \in submits : SubmitDone(s)
    \/ \E s \in submits : SubmitFail(s)
    \/ RefreshBatch
    \/ \E p \in BagToSet(polls) : \E r \in Answers(p.jobId) : PollServe(p, r)
    \/ \E p \in BagToSet(polls) : PollApply(p)
    \/ \E jobId \in RecoverIds : RecoverBatch(jobId)
    \/ \E t \in BagToSet(timers) : RecoverTimerFire(t)

\* The batch engine: the gallery of a user who has batching switched on,
\* with a provider whose jobs finish.
NextBatch ==
    \/ NextOpen
    \/ \E n \in 0..MaxBatchPanels : SetPanelCount(n)
    \/ StartRefineBatch(MaxJobs)
    \/ NextPoll
    \/ \E j \in KnownJobs :
          \E out \in ResultFiles(provider, Len(jobs[j].reqs)) : JobSucceed(j, out)
    \/ \E j \in KnownJobs : JobFail(j)

InitBatch == Init /\ useBatch /\ showGallery

SpecBatch == InitBatch /\ [][NextBatch]_vars

\* The two backends side by side: the same gallery, each job ending with
\* per-item outcomes.
NextBackends ==
    \/ NextOpen
    \/ \E n \in 0..MaxBatchPanels : SetPanelCount(n)
    \/ StartRefineBatch(MaxJobs)
    \/ NextPoll
    \/ \E j \in KnownJobs :
          \E outcomes \in ItemOutcomes(Len(jobs[j].reqs)) : JobSettle(j, outcomes)

SpecBackends == InitBatch /\ [][NextBackends]_vars

\* Batch submission: the same gallery, with several submissions and a
\* provider whose jobs are still running.
NextSubmit ==
    \/ NextOpen
    \/ \E n \in 0..MaxBatchPanels : SetPanelCount(n)
    \/ StartRefineBatch(MaxSubmits)
    \/ NextPoll

SpecSubmit == InitBatch /\ [][NextSubmit]_vars

\* The per-panel path: the gallery of a user who has batching switched off.
NextSingle ==
    \/ NextOpen
    \/ \E n \in 0..MaxPanels : SetPanelCount(n)
    \/ StartRefineSingle
    \/ \E k \in 1..Len(subPanels) : GenerateSinglePanel(k)
    \/ \E g \in BagToSet(gens) : GenDone(g)
    \/ \E g \in BagToSet(gens) : GenFail(g)

InitSingle == Init /\ ~useBatch /\ showGallery

SpecSingle == InitSingle /\ [][NextSingle]_vars

\* The cascade: analysis and base generation rerun over the artifacts of
\* an earlier pass (panels, captions, a selected caption, a cover).
NextCascade ==
    \/ RestoreDone
    \/ SelectStrategy
    \/ InitGalleryStart
    \/ \E n \in 0..MaxFrames : InitGalleryDone(n)
    \/ AnalyzeSteps(MaxReruns)
    \/ AnalyzeDone
    \/ AnalyzeFail
    \/ GenerateBase(MaxReruns)
    \/ GenerateBaseDone
    \/ GenerateBaseFail
    \/ \E n \in 0..MaxCascadePanels : SetPanelCount(n)
    \/ StartRefineSingle
    \/ \E g \in BagToSet(gens) : GenDone(g)
    \/ \E g \in BagToSet(gens) : GenFail(g)
    \/ GenerateCaption
    \/ CaptionDone
    \/ CaptionFail
    \/ \E opt \in Range(captionOptions) \cup {NoCaption} : SelectCaption(opt)
    \/ GenerateCover
    \/ CoverDone
    \/ CoverFail

InitCascade == InitSingle /\ provider = "google"

SpecCascade == InitCascade /\ [][NextCascade]_vars

\* The storage service on its own, under any sequence of calls.
NextStore ==
    \/ Tick
    \/ \E state \in Projects : SaveProject(state)
    \/ \E id \in Keys : \E updates \in Partials : UpdateProject(id, updates)
    \/ \E id \in Keys : GetProject(id)
    \/ \E id \in Keys \ {""} : DeleteProject(id)

InitStore == InitBatch /\ provider = "google"

SpecStore == InitStore /\ [][NextStore]_vars

\* The storage service with several calls in flight.
NextWrites ==
    \/ Tick
    \/ \E state \in Projects : SaveIssue(state)
    \/ \E id \in Keys \ {""} : \E updates \in AppPartials :
          UpdateIssue(id, updates)
    \/ WriteCommit

SpecWrites == InitStore /\ [][NextWrites]_vars

\* Projects created, loaded, renamed, tagged and deleted from the dashboard,
\* with their storage calls and link fetches in flight.  A call's
\* transaction runs after those of the calls made before it, so a read or
\* a delete is taken when no write waits; the App updates only a project it
\* has open, one with a record.
NextDelete ==
    \/ Tick
    \/ \E state \in WebProjects : SaveIssue(state)
    \/ \E id \in Keys \ {""} : \E updates \in AppPartials :
          db[id] # NoRecord /\ UpdateIssue(id, updates)
    \/ WriteCommit
    \/ \E id \in Keys \ {""} : LoadProject(id)
    \/ \E id \in Keys \ {""} : RetryWebLoad(id)
    \/ \E id \in refreshing : LinkRefreshDone(id)
    \/ \E id \in refreshing : LinkRefreshFail(id)
    \/ \E id \in Keys \ {""} : writes = <<>> /\ DeleteProject(id)

SpecDelete == InitStore /\ [][NextDelete]_vars

\* StorageService with failures.  After a failed open no call reaches the
\* store.
NextFailures ==
    \/ Tick
    \/ \E caller \in Callers : \E id \in Keys : \E at \in {"open", "request"} :
          StorageFails(caller, id, at)
    \/ /\ failure.at # "open"
       /\ \/ \E state \in Projects : SaveProject(state)
          \/ \E id \in Keys : \E updates \in AppPartials :
                UpdateProject(id, updates)
          \/ \E id \in Keys : GetProject(id)
          \/ \E id \in Keys : DeleteProject(id)

SpecFailures == InitStore /\ [][NextFailures]_vars

(***************************************************************************)
(* analyzeSteps: the step groups of the response become one description    *)
(* per frame.  A group is [kind, indices, description]; kind "malformed"   *)
(* stands for a group whose indices are not an array or whose description  *)
(* is not a string.                                                        *)
(***************************************************************************)
\* A group applied without overwriting an entry already set.
FlattenGroupFirst(flat, group) ==
    IF group.kind = "group"
    THEN [i \in 1..Len(flat) |->
             IF (i - 1) \in Range(group.indices) /\ flat[i] = ""
             THEN group.description
             ELSE flat[i]]
    ELSE flat

\* group.indices.forEach(idx => if (idx >= 0 && idx < length)
\*     flattenedDescriptions[idx] = group.description)
FlattenGroup(flat, group) ==
    IF group.kind = "group"
    THEN [i \in 1..Len(flat) |->
             IF (i - 1) \in Range(group.indices)
             THEN group.description
             ELSE flat[i]]
    ELSE flat

RECURSIVE Flatten(_, _)
\* steps.forEach over the groups, in their order.
Flatten(flat, groups) ==
    IF groups = <<>>
    THEN flat
    ELSE Flatten(FlattenGroup(flat, Head(groups)), Tail(groups))

\* new Array(frames.length).fill(''), then the groups.
FlattenedDescriptions(n, groups) == Flatten([i \in 1..n |-> ""], groups)

\* The index lists, groups and responses the model may return.
IndexLists ==
    UNION {[1..k -> -1..MaxDescribed] : k \in 0..MaxIndices}

StepGroups ==
    [kind : {"group"}, indices : IndexLists, description : {"", "a", "b"}]
        \cup [kind : {"malformed"}, indices : {<<0>>}, description : {"a"}]

StepLists == UNION {[1..k -> StepGroups] : k \in 0..MaxGroups}

\* GeminiService.analyzeSteps resolved with the groups of the response.
AnalyzeReturns(groups) ==
    /\ isAnalyzingSteps
    /\ steps' = groups
    /\ stepDescriptions' = FlattenedDescriptions(Len(sourceFrames), groups)
    /\ viewStep' = 1
    /\ isAnalyzingSteps' = FALSE
    /\ UNCHANGED <<analyzeCalls, isRestoring, activeStrategy, sourceFrames,
                   isLoadingFrames, art, panelCount, subPanels, batch,
                   workflowStep, error, useBatch, provider, flight, jobs,
                   captions, store, app, writes, saveTimer, captured,
                   failure, character>>

\* The analysis of a gallery's frames, with every response of the model.
NextAnalyze ==
    \/ RestoreDone
    \/ SelectStrategy
    \/ InitGalleryStart
    \/ \E n \in 0..MaxDescribed : InitGalleryDone(n)
    \/ AnalyzeSteps(MaxAnalyze)
    \/ \E groups \in StepLists : AnalyzeReturns(groups)
    \/ AnalyzeFail

InitAnalyze == Init /\ ~useBatch /\ provider = "google" /\ showGallery

SpecAnalyze == InitAnalyze /\ [][NextAnalyze]_vars

\* Autosave: the gallery of a project, with its debounced writes and a
\* store that may take its time.  A handler runs once the effects of the
\* previous render have run; restoreState's get waits for the writes made
\* before it.
NextAutosave ==
    \/ \E type \in {"local", "images"} : \E n \in 0..MaxFrames :
          CreateProject(type, n)
    \/ AddTag
    \/ OpenGallery
    \/ CloseGallery
    \/ Elapse
    \/ AutosaveEffect
    \/ AutosaveFire
    \/ WriteCommit
    \/ /\ showGallery /\ ~EffectPending
       /\ \/ writes = <<>> /\ RestoreSaved
          \/ SelectStrategy
          \/ InitGalleryStart
          \/ \E n \in 0..Len(tags) : InitGalleryDone(n)
          \/ InitGalleryFail
          \/ AnalyzeSteps(MaxAnalyze)
          \/ AnalyzeDone
          \/ AnalyzeFail
          \/ \E text \in {"", "e"} : StepDescriptionChange(0, text)

InitAutosave == Init /\ ~useBatch /\ provider = "google" /\ ~showGallery

SpecAutosave == InitAutosave /\ [][NextAutosave]_vars

\* The session of a restore that failed: the gallery as in SpecAutosave,
\* with a read that can fail; the gallery stays open once it has.
NextRestoreFails ==
    \/ \E type \in {"local", "images"} : \E n \in 0..MaxFrames :
          CreateProject(type, n)
    \/ AddTag
    \/ OpenGallery
    \/ failure = NoFailure /\ CloseGallery
    \/ Elapse
    \/ AutosaveEffect
    \/ AutosaveFire
    \/ WriteCommit
    \/ /\ showGallery /\ ~EffectPending
       /\ \/ writes = <<>> /\ RestoreSaved
          \/ writes = <<>> /\ RestoreFails
          \/ SelectStrategy
          \/ InitGalleryStart
          \/ \E n \in 0..Len(tags) : InitGalleryDone(n)
          \/ InitGalleryFail
          \/ AnalyzeSteps(MaxAnalyze)
          \/ AnalyzeDone
          \/ AnalyzeFail

SpecRestoreFails == InitAutosave /\ [][NextRestoreFails]_vars

\* The handlers of the Sidebar up to the cover, without panel refinement,
\* in a gallery opened on a project that has no saved record.
NextWorkflow ==
    \/ RestoreDone
    \/ SelectStrategy
    \/ InitGalleryStart
    \/ \E n \in 0..MaxFrames : InitGalleryDone(n)
    \/ InitGalleryFail
    \/ AnalyzeSteps(MaxReruns)
    \/ AnalyzeDone
    \/ AnalyzeFail
    \/ GenerateBase(MaxReruns)
    \/ GenerateBaseDone
    \/ GenerateBaseFail
    \/ AvatarUpload
    \/ RemoveAvatar
    \/ \E step \in 1..5 : SetViewStep(step)
    \/ IntegrateCharacter
    \/ IntegrateDone
    \/ IntegrateFail
    \/ SkipCharacter
    \/ GenerateCaption
    \/ CaptionDone
    \/ CaptionFail
    \/ \E opt \in Range(captionOptions) \cup {NoCaption} : SelectCaption(opt)
    \/ GenerateCover
    \/ CoverDone
    \/ CoverFail

InitWorkflow == Init /\ ~useBatch /\ provider = "google" /\ showGallery

SpecWorkflow == InitWorkflow /\ [][NextWorkflow]_vars

\* Save and restore: the state of a gallery is written by autosave, the
\* gallery is closed and opened again, and the record is restored.
NextRestore ==
    \/ CreateProject("images", MaxFrames)
    \/ OpenGallery
    \/ CloseGallery
    \/ /\ showGallery
       /\ \/ RestoreSaved
          \/ SelectStrategy
          \/ AnalyzeSteps(MaxAnalyze)
          \/ AnalyzeDone
          \/ GenerateBase(MaxBase)
          \/ GenerateBaseDone
          \/ AvatarUpload
          \/ \E text \in {"", "w"} : SetWatermarkText(text)
          \/ \E ratio \in {DefaultRatio, "1:1"} : SetAspectRatio(ratio)
          \/ \E step \in 1..5 : SetViewStep(step)
          \/ SkipCharacter
          \/ \E n \in 1..MaxFrames : SetPanelCount(n)
          \/ StartRefineSingle
          \/ \E g \in BagToSet(gens) : GenDone(g)
          \/ GenerateCaption
          \/ CaptionDone
          \/ \E opt \in Range(captionOptions) : SelectCaption(opt)
          \/ GenerateCover
          \/ CoverDone
          \/ call.seq <= MaxSaves /\ Autosave

InitRestore == Init /\ ~useBatch /\ provider = "google" /\ ~showGallery

SpecRestore == InitRestore /\ [][NextRestore]_vars

\* Frames and descriptions: a project is created in the App, tagged, opened
\* in the gallery, analysed, edited, reordered, saved, closed and reopened.
NextFrames ==
    \/ \E type \in {"local", "images"} : \E n \in 0..MaxReorderFrames :
          CreateProject(type, n)
    \/ AddTag
    \/ \E id \in Range(tags) : RemoveTag(id)
    \/ ClearTags
    \/ OpenGallery
    \/ CloseGallery
    \/ /\ showGallery
       /\ \/ RestoreSaved
          \/ SelectStrategy
          \/ InitGalleryStart
          \/ InitGalleryDone(Len(tags))
          \/ AnalyzeSteps(MaxAnalyze)
          \/ AnalyzeDone
          \/ AnalyzeFail
          \/ \E index \in 0..(MaxReorderFrames - 1) : \E text \in {"", "e"} :
                StepDescriptionChange(index, text)
          \/ \E dragIndex, dropIndex \in 0..(MaxReorderFrames - 1) :
                ReorderFrames(dragIndex, dropIndex)
          \/ Autosave

InitFrames == Init /\ ~useBatch /\ provider = "google" /\ ~showGallery

SpecFrames == InitFrames /\ [][NextFrames]_vars

Min(a, b) == IF a < b THEN a ELSE b

\* Regeneration next to both refine paths: the regenerate button of the
\* first panels of the grid, one call at a time, in either mode.
NextRegen ==
    \/ NextBatch
    \/ StartRefineSingle
    \/ \E k \in 1..Min(Len(subPanels), MaxRegen) :
          BagCardinality(gens) < MaxPolls /\ GenerateSinglePanel(k)
    \/ \E g \in BagToSet(gens) : GenDone(g)
    \/ \E g \in BagToSet(gens) : GenFail(g)

InitRegen == Init /\ showGallery

SpecRegen == InitRegen /\ [][NextRegen]_vars

TypeOK ==
    /\ batchStatus \in {"idle", "pending", "completed", "failed"}
    /\ \A k \in 1..Len(subPanels) : subPanels[k].status \in Statuses
    /\ batchJobId \in {NoJob, ForeignJob} \cup KnownJobs

(***************************************************************************)
(* Steps, as seen from the state change they make.                         *)
(***************************************************************************)
\* handleRefreshBatch applies the answer of poll p.
Applies(p) ==
    /\ BagIn(p, polls)
    /\ p.resp # "none"
    /\ polls' = polls (-) SetToBag({p})

\* handleBatchRequest has started a submission.
Submits == submitSeq' = submitSeq + 1

\* The provider call of submission s resolved with a job id.
Accepted(s) == s \in submits /\ submits' = submits \ {s} /\ Len(jobs') = Len(jobs) + 1

\* The provider call of submission s was rejected.
Rejected(s) == s \in submits /\ submits' = submits \ {s} /\ jobs' = jobs

\* handleRecoverBatch(t.jobId) has run and left timer t.
Recovers(t) == ~BagIn(t, timers) /\ timers' = timers (+) SetToBag({t})

\* The timer t of handleRecoverBatch fires.
Fires(t) == BagIn(t, timers) /\ timers' = timers (-) SetToBag({t})

\* The refinePanel call g settles.
Settles(g) == BagIn(g, gens) /\ gens' = gens (-) SetToBag({g})

\* The result of list results that handleRefreshBatch matches to index.
Matches(results, index) == {i \in 1..Len(results) : results[i].index = index}

(***************************************************************************)
(* C1.  After handleRefreshBatch has applied a 'completed' answer, no      *)
(* panel is 'generating': a panel with a matching result is 'completed'    *)
(* if the result carries an image and 'error' if not, and a panel that     *)
(* was 'generating' and has no matching result is 'error'.                 *)
(***************************************************************************)
C1_CompletedLeavesNoneGenerating ==
    [][\A p \in BagToSet(polls) :
          (Applies(p) /\ p.resp = "completed") =>
             LET results == CompletedResults(p.jobId)
             IN  /\ batchStatus' = "completed"
                 /\ Len(subPanels') = Len(subPanels)
                 /\ \A k \in 1..Len(subPanels) :
                       LET m == Matches(results, subPanels[k].index)
                       IN  /\ subPanels'[k].status # "generating"
                           /\ \A i \in m :
                                 subPanels'[k].status =
                                    IF results[i].image # NullImg
                                    THEN "completed" ELSE "error"
                           /\ (m = {} /\ subPanels[k].status = "generating")
                                 => subPanels'[k].status = "error"
                           /\ (m = {} /\ subPanels[k].status # "generating")
                                 => subPanels'[k] = subPanels[k]]_vars

\* A completed job that answered fewer requests than there are panels has
\* been applied: the matched panel is completed, the other is in error.
C1_Witness ==
    /\ batchStatus = "completed"
    /\ batchJobId \in KnownJobs
    /\ jobs[batchJobId].state = "succeeded"
    /\ Len(subPanels) = 2
    /\ Len(jobs[batchJobId].out) = 1
    /\ subPanels[1].status = "completed"
    /\ subPanels[2].status = "error"
    /\ subPanels[2].imageUrl = NullImg

(***************************************************************************)
(* C2.  Every image a panel holds was produced for the panel index that    *)
(* its request carried: a returned item is applied to the panel of the     *)
(* index in the item's request, never to the panel at the item's position  *)
(* in the returned list.                                                   *)
(***************************************************************************)
C2_AppliedByCarriedIndex ==
    \A k \in 1..Len(subPanels) :
        subPanels[k].imageUrl # NullImg =>
            subPanels[k].imageUrl[1] = subPanels[k].index

(***************************************************************************)
(* C3.  When handleRefreshBatch applies a 'failed' answer, every           *)
(* 'generating' panel becomes 'error', batchStatus is 'failed', the error  *)
(* message is set, and the other panels are unchanged.                     *)
(***************************************************************************)
C3_FailedForcesGeneratingToError ==
    [][\A p \in BagToSet(polls) :
          (Applies(p) /\ p.resp = "failed") =>
             /\ batchStatus' = "failed"
             /\ error' = MsgBatchFailed
             /\ Len(subPanels') = Len(subPanels)
             /\ \A k \in 1..Len(subPanels) :
                   IF subPanels[k].status = "generating"
                   THEN subPanels'[k] = [subPanels[k] EXCEPT !.status = "error"]
                   ELSE subPanels'[k] = subPanels[k]]_vars

\* A failed answer has been applied to a batch of generating panels.
C3_Witness ==
    /\ batchStatus = "failed"
    /\ error = MsgBatchFailed
    /\ batchJobId \in KnownJobs
    /\ jobs[batchJobId].state = "failed"
    /\ Len(subPanels) = 2
    /\ \A k \in 1..Len(subPanels) : subPanels[k].status = "error"

(***************************************************************************)
(* C4.  When handleRefreshBatch applies the answer of a job still in       *)
(* progress, batchStatus is 'pending' afterwards and no panel changes.     *)
(***************************************************************************)
C4_InProgressChangesNoPanel ==
    [][\A p \in BagToSet(polls) :
          (Applies(p) /\ p.resp = "pending") =>
             /\ batchStatus' = "pending"
             /\ subPanels' = subPanels]_vars

\* The answer of a running job is about to be applied while panels are
\* generating and batchStatus has been changed by an earlier answer.
C4_Witness ==
    /\ \E p \in BagToSet(polls) :
          /\ p.resp = "pending"
          /\ p.jobId \in KnownJobs
          /\ jobs[p.jobId].state = "running"
    /\ AnyGenerating
    /\ batchStatus = "pending"

\* The panel updates a rejected submission s has to make and no other.
FailureMarksTargets(s) ==
    /\ Len(subPanels') = Len(subPanels)
    /\ \A k \in 1..Len(subPanels) :
          IF subPanels[k].index \in Range(s.targets)
          THEN subPanels'[k] = [subPanels[k] EXCEPT !.status = "error"]
          ELSE subPanels'[k] = subPanels[k]

(***************************************************************************)
(* C5, as stated.  When the provider call of handleBatchRequest fails,     *)
(* every targeted panel ends in 'error', every other panel is unchanged,   *)
(* batchStatus is 'failed', the error message is set and batchJobId is     *)
(* null.                                                                   *)
(***************************************************************************)
C5_FailureLeavesIdNull ==
    [][\A s \in submits :
          Rejected(s) =>
             /\ FailureMarksTargets(s)
             /\ batchStatus' = "failed"
             /\ error' = MsgSubmitFailed
             /\ batchJobId' = NoJob]_vars

(***************************************************************************)
(* C5, amended.  When the provider call of handleBatchRequest fails,       *)
(* every targeted panel ends in 'error', every other panel is unchanged,   *)
(* batchStatus is 'failed', the error message is set and batchJobId keeps  *)
(* the value it had: the failure path never sets it.                       *)
(***************************************************************************)
C5_FailureNeverSetsId ==
    [][\A s \in submits :
          Rejected(s) =>
             /\ FailureMarksTargets(s)
             /\ batchStatus' = "failed"
             /\ error' = MsgSubmitFailed
             /\ batchJobId' = batchJobId]_vars

\* A submission of two panels was rejected after an id had been attached
\* by recovery while the call was in flight.
C5_Witness ==
    /\ submits = {}
    /\ jobs = <<>>
    /\ submitSeq = 1
    /\ batchStatus = "failed"
    /\ error = MsgSubmitFailed
    /\ batchJobId = ForeignJob
    /\ Len(subPanels) = 2
    /\ \A k \in 1..Len(subPanels) : subPanels[k].status = "error"

C7_NewestSubmissionWins ==
    [][(/\ batchJobId \in KnownJobs
        /\ batchJobId' \in 1..Len(jobs')
        /\ batchJobId' # batchJobId)
          => jobs'[batchJobId'].sid > jobs[batchJobId].sid]_vars

(***************************************************************************)
(* C8.  handleRecoverBatch(jobId) on a project with no sub-panels creates  *)
(* N placeholder panels, N = panelCount when panelCount > 0 and N = 10     *)
(* when panelCount is 0, with index 0..N-1, imageUrl null and status       *)
(* 'generating', and sets batchJobId = jobId, batchStatus = 'pending' and  *)
(* workflowStep = 'refine_mode'.                                           *)
(***************************************************************************)
C8_RecoverCreatesPlaceholders ==
    [][\A jobId \in RecoverIds :
          (Recovers([jobId |-> jobId, seen |-> batchJobId]) /\ subPanels = <<>>)
             => LET N == IF panelCount > 0 THEN panelCount ELSE 10
                IN  /\ Len(subPanels') = N
                    /\ \A k \in 1..N :
                          /\ subPanels'[k].index = k - 1
                          /\ subPanels'[k].imageUrl = NullImg
                          /\ subPanels'[k].status = "generating"
                    /\ batchJobId' = jobId
                    /\ batchStatus' = "pending"
                    /\ workflowStep' = "refine_mode"]_vars

\* Recovery on a project with no panels and panelCount 0 has run.
C8_Witness ==
    /\ panelCount = 0
    /\ batchJobId = ForeignJob
    /\ batchStatus = "pending"
    /\ workflowStep = "refine_mode"
    /\ Len(subPanels) = 10
    /\ \A k \in 1..Len(subPanels) : subPanels[k].status = "generating"

(***************************************************************************)
(* C9.  After handleRecoverBatch(jobId) on a project that had no attached  *)
(* job, the refresh it schedules issues a status poll for exactly that     *)
(* jobId, with no further user action.                                     *)
(***************************************************************************)
C9_RecoverIssuesPoll ==
    [][\A t \in BagToSet(timers) :
          Fires(t) =>
             LET poll == [jobId |-> t.jobId, resp |-> "none"]
             IN  CopiesIn(poll, polls') = CopiesIn(poll, polls) + 1]_vars

(***************************************************************************)
(* C10.  Without batching, the outcome of a per-panel call changes only    *)
(* the panel of its own index: that panel becomes 'completed' with the     *)
(* image returned for its index when the call succeeds and 'error' when    *)
(* it fails, in whatever order the calls settle, and every panel of        *)
(* another index keeps its status and image.                               *)
(***************************************************************************)
C10_CallTouchesOwnPanel ==
    [][\A g \in BagToSet(gens) :
          Settles(g) =>
             /\ Len(subPanels') = Len(subPanels)
             /\ \A k \in 1..Len(subPanels) :
                   IF subPanels[k].index = g.index
                   THEN \/ subPanels'[k] =
                              [subPanels[k] EXCEPT
                                  !.status = "completed",
                                  !.imageUrl = Img(subPanels[k].index, g.art, NoJob)]
                        \/ subPanels'[k] = [subPanels[k] EXCEPT !.status = "error"]
                   ELSE subPanels'[k] = subPanels[k]]_vars

\* Three calls have settled, the one for index 1 with a failure.
C10_Witness ==
    /\ gens = EmptyBag
    /\ Len(subPanels) = 3
    /\ subPanels[1].status = "completed"
    /\ subPanels[1].imageUrl = Img(0, generatedArt, NoJob)
    /\ subPanels[2].status = "error"
    /\ subPanels[2].imageUrl = NullImg
    /\ subPanels[3].status = "completed"
    /\ subPanels[3].imageUrl = Img(2, generatedArt, NoJob)

\* processPanelGeneration starts the refinePanel call g.
Requests(g) == gens' = gens (+) SetToBag({g})

\* Every panel of an index other than index is as it was.
OthersKept(index) ==
    /\ Len(subPanels') = Len(subPanels)
    /\ \A k \in 1..Len(subPanels) :
          subPanels[k].index # index => subPanels'[k] = subPanels[k]

(***************************************************************************)
(* C11.  Regenerating one panel (generateSinglePanel) changes only that    *)
(* panel: the request marks the panel of its index 'generating', its       *)
(* result or failure is applied to the panel of its index, and at both     *)
(* steps every panel of another index keeps its status and imageUrl.       *)
(***************************************************************************)
C11_RegenerateTouchesOnePanel ==
    [][/\ \A i \in 0..(DefaultRecoverPanels - 1) :
             Requests([index |-> i, setGen |-> TRUE, art |-> generatedArt]) =>
                /\ OthersKept(i)
                /\ \A k \in 1..Len(subPanels) :
                      subPanels[k].index = i =>
                         subPanels'[k] = [subPanels[k] EXCEPT !.status = "generating"]
       /\ \A g \in BagToSet(gens) :
             (Settles(g) /\ g.setGen) => OthersKept(g.index)]_vars

\* Panel 0 of a completed batch is being regenerated next to the completed
\* panel 1.
C11_Witness ==
    /\ useBatch
    /\ batchStatus = "completed"
    /\ Len(subPanels) = 2
    /\ subPanels[1].status = "generating"
    /\ subPanels[2].status = "completed"
    /\ \E g \in BagToSet(gens) : g.index = 0 /\ g.setGen

(***************************************************************************)
(* C12.  Polling a completed job again is idempotent: when the 'completed' *)
(* answer of the attached job is applied while batchStatus is already      *)
(* 'completed' from the previous poll, every panel keeps its status and    *)
(* imageUrl and batchStatus is 'completed' again.                          *)
(***************************************************************************)
C12_SecondPollChangesNothing ==
    [][\A p \in BagToSet(polls) :
          (/\ Applies(p)
           /\ p.resp = "completed"
           /\ p.jobId = batchJobId
           /\ batchStatus = "completed")
             => /\ subPanels' = subPanels
                /\ batchStatus' = "completed"]_vars

\* The second 'completed' answer of the same job is about to be applied to
\* the panels the first one left completed and in error.
C12_Witness ==
    /\ batchStatus = "completed"
    /\ \E p \in BagToSet(polls) : p.resp = "completed" /\ p.jobId = batchJobId
    /\ Len(subPanels) = 2
    /\ \E k \in 1..2 : subPanels[k].status = "completed"
    /\ \E k \in 1..2 : subPanels[k].status = "error"

\* The artifacts downstream of the base storyboard are all empty.
DownstreamEmpty ==
    /\ subPanels = <<>>
    /\ captionOptions = <<>>
    /\ selectedCaption = NoCaption
    /\ coverImage = NoCover

\* C13: from the moment generateBase has started until the provider
\* returns, subPanels and captionOptions are empty and selectedCaption,
\* coverImage, baseArt and generatedArt are null.
C13_BaseCallRunsOnEmptyArtifacts ==
    isGeneratingImage =>
        DownstreamEmpty /\ baseArt = NoArt /\ generatedArt = NoArt

\* C14: when an analysis that was started ends, by success or by failure,
\* baseArt and generatedArt are null, subPanels and captionOptions are
\* empty, selectedCaption and coverImage are null.
C14_AnalysisEndsOnEmptyArtifacts ==
    [][isAnalyzingSteps /\ ~isAnalyzingSteps' =>
          (DownstreamEmpty /\ baseArt = NoArt /\ generatedArt = NoArt)']_vars

\* The step is the StorageService call op, the next of the behaviour.
Calls(op) == call'.seq = call.seq + 1 /\ call'.op = op

\* The fields the fallback of updateProject fills in for the gallery.
FallbackFields ==
    {"sourceFrames", "stepDescriptions", "subPanels", "captionOptions",
     "sourceType", "aspectRatio"}

\* C17, as stated: updateProject on an existing record stores a record in
\* which every field named in the partial has the new value, every other
\* field keeps its value, and lastUpdated is the time of the write.
C17_EveryNamedFieldIsWritten ==
    [][Calls("update") /\ call'.id # "" /\ db[call'.id] # NoRecord =>
        LET old == db[call'.id]
            new == db'[call'.id]
            updates == call'.arg
        IN /\ \A f \in DOMAIN updates : new[f] = updates[f]
           /\ \A f \in DOMAIN old \ (DOMAIN updates \cup {"lastUpdated"}) :
                 new[f] = old[f]
           /\ new.lastUpdated = call'.at]_vars

\* C17, amended: updateProject on an existing record stores a record in
\* which every field named in the partial other than id and lastUpdated has
\* the new value, every field not named keeps its value, no other field
\* appears, id is the key and lastUpdated is the time of the write.
C17_UpdateMergesOntoExisting ==
    [][Calls("update") /\ call'.id # "" /\ db[call'.id] # NoRecord =>
        LET old == db[call'.id]
            new == db'[call'.id]
            updates == call'.arg
        IN /\ new # NoRecord
           /\ DOMAIN new = DOMAIN old \cup DOMAIN updates
           /\ \A f \in DOMAIN updates \ {"id", "lastUpdated"} :
                 new[f] = updates[f]
           /\ \A f \in DOMAIN old \ (DOMAIN updates \cup {"lastUpdated"}) :
                 new[f] = old[f]
           /\ new.id = call'.id
           /\ new.lastUpdated = call'.at]_vars

\* A saved project has been given a new video and tags by updateProject.
C17_Witness ==
    /\ call.op = "update" /\ call.id # ""
    /\ call.arg = [videoUrl |-> "url2", tags |-> <<1>>]
    /\ db[call.id] # NoRecord
    /\ db[call.id].name = "name"
    /\ db[call.id].videoUrl = "url2"

\* C18: updateProject with a non-empty id that has no record leaves, under
\* that id, a record with the fallback fields overridden by the partial.
C18_UpdateCreatesUnderItsId ==
    [][Calls("update") /\ call'.id # "" /\ db[call'.id] = NoRecord =>
        LET new == db'[call'.id]
            updates == call'.arg
        IN /\ Fetched(db', call'.id) # NoRecord
           /\ \A f \in DOMAIN updates : new[f] = updates[f]
           /\ \A f \in FallbackFields \ DOMAIN updates :
                 new[f] = FallbackProject(call'.id, call'.at)[f]]_vars

\* C19: updateProject(id, partial) changes no record under another key, and
\* the record under id, if there is one afterwards, has id as its id.
C19_UpdateWritesOnlyItsKey ==
    [][Calls("update") =>
        /\ \A k \in Keys \ {call'.id} : db'[k] = db[k]
        /\ db'[call'.id] # NoRecord => db'[call'.id].id = call'.id]_vars

\* C20: getProject(P.id) right after saveProject(P) resolves with a record
\* that has the fields of P, each with P's value, except lastUpdated, which
\* is the time of the save.
C20_GetAfterSaveReturnsSaved ==
    [][call.op = "save" /\ Calls("get") /\ call'.id = call.id =>
        LET P == call.arg
        IN /\ got' # NoRecord
           /\ DOMAIN got' = DOMAIN P
           /\ \A f \in DOMAIN P \ {"lastUpdated"} : got'[f] = P[f]
           /\ got'.lastUpdated = call.at]_vars

\* A project was saved after the clock had moved on and then fetched.
C20_Witness ==
    /\ call.seq = 2 /\ call.op = "get"
    /\ got # NoRecord
    /\ got.name = "name"
    /\ got.id = call.id
    /\ got.lastUpdated > 0

\* No description yet, or one description for each frame.
Aligned ==
    Len(stepDescriptions) = 0 \/ Len(stepDescriptions) = Len(sourceFrames)

C16_PanelIndexIsPosition ==
    [][/\ \A k \in 1..Len(subPanels') : subPanels'[k].index = k - 1
       /\ Len(subPanels') # Len(subPanels) =>
             \A k \in 1..Len(subPanels') : subPanels'[k].imageUrl = NullImg]_vars

\* A batch result has been applied and one of its panels is being
\* regenerated next to a finished one.
C16_Witness ==
    /\ batchStatus = "completed"
    /\ Len(subPanels) >= 2
    /\ \E k \in 1..Len(subPanels) : subPanels[k].status = "generating"
    /\ \E k \in 1..Len(subPanels) : subPanels[k].status = "completed"

\* The step is the transaction of the call in flight at place i.
Commits(i) ==
    /\ i \in 1..Len(writes)
    /\ writes' = Remove(writes, i)
    /\ call' = Called(writes[i].op, writes[i].id, writes[i].arg)

\* C21: when the transaction of an update runs right after that of another
\* update of the same id, both calls having been in flight together and
\* naming disjoint fields, the stored record has the fields of both.
C21_ConcurrentUpdatesBothKept ==
    [][\A i \in 1..Len(writes) :
          /\ Commits(i)
          /\ writes[i].op = "update" /\ call.op = "update"
          /\ writes[i].id = call.id
          /\ writes[i].after < call.seq
          /\ DOMAIN writes[i].arg \cap DOMAIN call.arg = {}
          => LET stored == db'[call.id]
             IN /\ stored # NoRecord
                /\ DOMAIN call.arg \cup DOMAIN writes[i].arg
                      \subseteq DOMAIN stored
                /\ \A f \in DOMAIN call.arg : stored[f] = call.arg[f]
                /\ \A f \in DOMAIN writes[i].arg :
                      stored[f] = writes[i].arg[f]]_vars

\* Two updates of project a were in flight together, a rename and new tags,
\* and both have been served.
C21_Witness ==
    /\ call.seq = 2 /\ call.op = "update" /\ call.id = "a"
    /\ call.arg = [tags |-> <<1>>]
    /\ writes = <<>>
    /\ db["a"] # NoRecord
    /\ db["a"].name = "renamed"
    /\ db["a"].tags = <<1>>

\* A call in flight made by the gallery's autosave.
IsAutosave(w) ==
    w.op = "update" /\ w.id = ProjectId /\ "workflowStep" \in DOMAIN w.arg

\* C22: of the autosave writes of one project in flight together, the one
\* whose transaction runs is the one issued first, and once it has run the
\* stored record holds its snapshot; so the last transaction to run is that
\* of the write issued last, and the stored record then holds the later
\* snapshot: an earlier write never replaces a later one.
C22_AutosaveWritesInOrder ==
    [][\A i \in 1..Len(writes) :
          Commits(i) /\ IsAutosave(writes[i])
          => LET stored == db'[ProjectId]
                 snapshot == writes[i].arg
             IN /\ stored # NoRecord
                /\ DOMAIN snapshot \subseteq DOMAIN stored
                /\ \A f \in DOMAIN snapshot \ {"lastUpdated"} :
                      stored[f] = snapshot[f]
                /\ \A j \in 1..Len(writes) :
                      j # i /\ IsAutosave(writes[j])
                      => writes[j].arg.lastUpdated > snapshot.lastUpdated]_vars

\* The earlier of two autosave writes that were in flight together has been
\* stored, and the later one, with another state, is still to run.
C22_Witness ==
    /\ call.op = "update" /\ call.id = ProjectId
    /\ "workflowStep" \in DOMAIN call.arg
    /\ Len(writes) = 1 /\ IsAutosave(writes[1])
    /\ writes[1].after < call.seq
    /\ writes[1].arg.lastUpdated > call.arg.lastUpdated
    /\ writes[1].arg.activeStrategyId # call.arg.activeStrategyId
    /\ db[ProjectId] # NoRecord
    /\ db[ProjectId].activeStrategyId = call.arg.activeStrategyId

\* C23: while the gallery is open and its restore has not resolved, no
\* autosave timeout is set and no storage call is issued; and whenever a
\* timeout is set, the restore has resolved and the timeout carries the
\* state of the render after it.
C23_NoAutosaveWhileRestoring ==
    [][/\ showGallery /\ isRestoring
          => ~saveTimer.live /\ Len(writes') <= Len(writes)
       /\ showGallery' /\ isRestoring' => ~saveTimer'.live
       /\ saveTimer'.live /\ saveTimer' # saveTimer
          => ~isRestoring' /\ saveTimer'.state = Persisted']_vars

\* A saved project with a strategy has been restored into a gallery that
\* opened without one, and the first timeout is set, with the restored state.
C23_Witness ==
    /\ showGallery /\ ~isRestoring
    /\ call.op = "get" /\ got # NoRecord
    /\ got.activeStrategyId = TRUE
    /\ saveTimer.live /\ saveTimer.due = clock + QuietPeriod
    /\ saveTimer.state = Persisted
    /\ saveTimer.state.activeStrategyId = TRUE

\* C24: after restore every mutation of a persisted field sets the timeout
\* one quiet period ahead with the state it leaves; a storage call is issued
\* only by the timeout, at the time it was set for, as one
\* update(id, snapshot) whose snapshot is the state of the last mutation; and
\* a timeout that was set ends only by issuing that call, so that every burst
\* of mutations produces exactly one call.
C24_BurstYieldsOneWrite ==
    [][/\ saveTimer'.live /\ saveTimer' # saveTimer
          => /\ saveTimer'.due = clock' + QuietPeriod
             /\ saveTimer'.state = Persisted'
       /\ Len(writes') > Len(writes)
          => /\ saveTimer.live /\ ~saveTimer'.live
             /\ clock = saveTimer.due
             /\ saveTimer.state = Persisted
             /\ writes' = Append(writes, writes'[Len(writes')])
             /\ IsAutosave(writes'[Len(writes')])
             /\ \A f \in DOMAIN Persisted :
                   writes'[Len(writes')].arg[f] = Persisted[f]
       /\ saveTimer.live /\ ~saveTimer'.live
          => Len(writes') = Len(writes) + 1]_vars

\* C25: within one session of the gallery a frame capture is started only
\* when sourceFrames is empty and no capture was started before, whatever
\* the earlier capture ended with.
C25_CaptureStartedOnce ==
    [][isLoadingFrames' /\ ~isLoadingFrames
          => Len(sourceFrames) = 0 /\ ~captured]_vars

\* The fields of the workflow state that a reopened gallery has to bring back.
RoundTripFields ==
    {"sourceFrames", "stepDescriptions", "baseArt", "generatedArt",
     "avatarImage", "watermarkText", "panelCount", "subPanels",
     "captionOptions", "selectedCaption", "coverImage", "workflowStep",
     "viewStep", "batchJobId", "batchStatus", "aspectRatio"}

C27_RejectedChangesOnlyError ==
    [][/\ Len(sourceFrames) = 0 \/ ~activeStrategy
          => baseCalls' = baseCalls
       /\ baseArt = NoArt \/ avatarImage = NoAvatar
          => ~(integrating' /\ ~integrating)
       /\ selectedCaption = NoCaption \/ ~activeStrategy
             \/ Len(sourceFrames) = 0
          => coverCalls' = coverCalls /\ (isGeneratingCover' => isGeneratingCover)
       /\ error' # error /\ error' \in {MsgNoFrames, MsgMissing, MsgNoCaption}
          => UNCHANGED <<gallery, art, panelCount, subPanels, batch,
                         workflowStep, viewStep, flight, jobs, captions,
                         character, store, app, session>>]_vars

\* generateCover has been refused for want of a selected caption: the
\* message is set, no cover call was made, and the storyboard and the
\* caption options are there.
C27_Witness ==
    /\ error = MsgNoCaption
    /\ coverCalls = 0 /\ ~isGeneratingCover /\ coverImage = NoCover
    /\ selectedCaption = NoCaption
    /\ Len(captionOptions) > 0
    /\ generatedArt # NoArt
    /\ viewStep = 5

\* What a failed provider call may not touch: the artifacts, the workflow
\* step, the batch fields, and the calls made or in flight.
FailureLeaves ==
    /\ UNCHANGED <<sourceFrames, stepDescriptions, baseArt, generatedArt,
                   panelCount, subPanels, captionOptions, selectedCaption,
                   coverImage, avatarImage, watermarkText, aspectRatio>>
    /\ UNCHANGED <<workflowStep, batch>>
    /\ UNCHANGED <<analyzeCalls, baseCalls, captionCalls, coverCalls, flight>>

C29_StorageFailuresResolve ==
    failure # NoFailure => failure.outcome = "resolved"

\* The groups of a response that list frame i.
Covering(i) ==
    {k \in 1..Len(steps) :
        steps[k].kind = "group" /\ i \in Range(steps[k].indices)}

\* C30: when analyze returns, there is one description per frame; the
\* description of frame i is that of the last listed group whose indices
\* contain i, and '' when no group lists i; indices outside 0..n-1 add
\* nothing.
C30_AnalyzeMapsGroupsToFrames ==
    [][(\E groups \in StepLists : AnalyzeReturns(groups))
          => /\ Len(stepDescriptions') = Len(sourceFrames)
             /\ \A i \in 0..(Len(sourceFrames) - 1) :
                   stepDescriptions'[i + 1] =
                      IF Covering(i)' = {}
                      THEN ""
                      ELSE LET last == CHOOSE k \in Covering(i)' :
                                          \A j \in Covering(i)' : j <= k
                           IN steps'[last].description]_vars

\* Two frames, two groups: both list frame 0, the second also an index out
\* of range; frame 0 has the second group's description and frame 1 none.
C30_Witness ==
    /\ Len(sourceFrames) = 2
    /\ ~isAnalyzingSteps
    /\ steps = <<[kind |-> "group", indices |-> <<0>>, description |-> "a"],
                 [kind |-> "group", indices |-> <<2, 0>>,
                  description |-> "b"]>>
    /\ stepDescriptions = <<"b", "">>

\* C31: no result of a downstream operation requested before a rerun of
\* analyze or generateBase is written after the rerun's reset: while baseArt
\* is null, subPanels and captionOptions are empty and coverImage is null.
C31_ResetOutlivesInFlightWork ==
    baseArt = NoArt =>
        /\ subPanels = <<>>
        /\ captionOptions = <<>>
        /\ coverImage = NoCover

\* C32: when a frame is removed from a project's sourceFrames in image mode
\* (tag removal or clear-all) while the stored record pairs one description
\* with each frame, the stored stepDescriptions loses the entry at the
\* removed frame's position: the other frames keep their descriptions and
\* the two stored lists keep equal length.
C32_RemovalDropsPairedDescription ==
    [][LET saved == db[ProjectId]
           frames == saved.sourceFrames
           paired == /\ sourceType = "images"
                     /\ Len(frames) > 0
                     /\ Len(saved.stepDescriptions) = Len(frames)
       IN /\ \A id \in Range(tags) :
                paired /\ id \in Range(frames) /\ RemoveTag(id) =>
                   LET k == CHOOSE k \in 1..Len(frames) : frames[k] = id
                   IN /\ db'[ProjectId].sourceFrames = Remove(frames, k)
                      /\ db'[ProjectId].stepDescriptions =
                            Remove(saved.stepDescriptions, k)
          /\ paired /\ ClearTags =>
                /\ db'[ProjectId].sourceFrames = <<>>
                /\ db'[ProjectId].stepDescriptions = <<>>]_vars

\* C33: with either backend, when one request of a submitted batch fails
\* and the others produce images, the poll that applies the terminal answer
\* of that job (the status request itself went through) marks the failed
\* item's panel 'error' and every other panel 'completed'.
C33_BackendsGiveSamePanelOutcome ==
    [][\A p \in BagToSet(polls) :
          (/\ Applies(p)
           /\ p.resp \in {"completed", "failed"}
           /\ p.jobId \in KnownJobs
           /\ p.jobId = batchJobId
           /\ p.resp = CheckBatchStatus(
                          IF provider = "google"
                          THEN GoogleGetBatchStatus(p.jobId, TRUE)
                          ELSE OpenAIGetBatchStatus(p.jobId)).status
           /\ LET job == jobs[p.jobId]
              IN  /\ job.state # "running"
                  /\ Len(job.out) = Len(job.reqs)
                  /\ Len(subPanels) = Len(job.reqs)
                  /\ Cardinality({k \in 1..Len(job.out) : ~job.out[k].ok}) = 1
                  /\ \A k \in 1..Len(subPanels) :
                        /\ job.reqs[k] = subPanels[k].index
                        /\ subPanels[k].status = "generating")
          => \A k \in 1..Len(subPanels) :
                subPanels'[k].status =
                   IF jobs[p.jobId].out[k].ok THEN "completed" ELSE "error"]_vars

\* C34: once the read of the restore routine has failed, no autosave of
\* that session writes default or empty workflow fields over the record
\* stored for the project: step descriptions and a strategy that are stored
\* stay stored.
C34_FailedRestoreKeepsRecord ==
    [][LET saved == db[ProjectId]
       IN  (showGallery /\ failure.op = "get" /\ saved # NoRecord) =>
               /\ saved.stepDescriptions # <<>> =>
                     db'[ProjectId].stepDescriptions # <<>>
               /\ saved.activeStrategyId => db'[ProjectId].activeStrategyId]_vars

\* C35: in a restored gallery with no call in flight, a panel that is
\* 'generating' while batchJobId is null can still be finished by an
\* enabled operation: the refresh button (poll), the panel's regenerate
\* button or the start-refine button.
C35_RestoredPanelCanFinish ==
    (/\ showGallery /\ Step4Shown
     /\ gens = EmptyBag /\ submits = {} /\ polls = EmptyBag
     /\ batchJobId = NoJob) =>
        \A k \in 1..Len(subPanels) :
           subPanels[k].status = "generating" =>
              \/ Step4Shown /\ batchJobId # NoJob
              \/ GridShown /\ subPanels[k].status # "generating"
              \/ StartRefineEnabled

\* C36: a panel regenerated on its own after its batch job completed keeps
\* the regenerated result: when a later poll of the still attached,
\* completed job is applied, a panel holding the image of a per-panel call
\* keeps its imageUrl and its status.
C36_RegeneratedPanelSurvivesPoll ==
    [][\A p \in BagToSet(polls) :
          (/\ Applies(p)
           /\ p.jobId = batchJobId
           /\ p.jobId \in KnownJobs
           /\ batchStatus = "completed")
          => \A k \in 1..Len(subPanels) :
                (/\ subPanels[k].status = "completed"
                 /\ subPanels[k].imageUrl # NullImg
                 /\ subPanels[k].imageUrl[3] = NoJob)
                => /\ subPanels'[k].imageUrl = subPanels[k].imageUrl
                   /\ subPanels'[k].status = subPanels[k].status]_vars

\* C37: a per-panel result belongs to the refine pass that requested it:
\* every image a panel holds was requested for the storyboard the present
\* refine pass works on, never in a pass before subPanels was reset.
C37_ResultBelongsToItsPass ==
    \A k \in 1..Len(subPanels) :
       subPanels[k].imageUrl # NullImg =>
          subPanels[k].imageUrl[2] = generatedArt

\* C38: a deleted project stays deleted: a record comes into being under
\* an id only by a createProject save, never by a write started for that
\* id before its deletion (a link refresh, a name or tag update).
C38_DeletedStaysDeleted ==
    [][\A id \in Keys :
          (db[id] = NoRecord /\ db'[id] # NoRecord) => call'.op = "save"]_vars

\* C39: closing the gallery does not lose a pending autosave: when the
\* gallery is closed while the timeout set for the last mutation is still
\* running and the store holds an older state, the new state is written to
\* the store all the same (the write is issued at the close, or the timeout
\* stays set).
C39_CloseKeepsPendingAutosave ==
    [][(/\ showGallery /\ ~showGallery'
        /\ saveTimer.live /\ clock < saveTimer.due
        /\ saveTimer.state = Persisted
        /\ writes = <<>>
        /\ \E f \in DOMAIN Persisted : db[ProjectId][f] # Persisted[f])
       => \/ saveTimer' = saveTimer
          \/ /\ Len(writes') = Len(writes) + 1
             /\ IsAutosave(writes'[Len(writes')])
             /\ \A f \in DOMAIN Persisted :
                   writes'[Len(writes')].arg[f] = Persisted[f]]_vars

====
